---- MODULE Spec2Model ----
(***************************************************************************)
(* A model of the expression language of flinch-flql: the lexer            *)
(* (src/src/lexer.rs), the parser and the evaluator (src/src/exp_parser.rs)*)
(*                                                                         *)
(* A source is a sequence of bytes, each byte a one-character string.      *)
(* Offsets are 0-based as in the code (Tokenizer.pos, Token.start); the    *)
(* byte at offset k of a source s is s[k + 1].                             *)
(***************************************************************************)
EXTENDS Integers, Sequences, FiniteSets, TLC

VARIABLES
    src,              \* the source text handed to Tokenizer::new / Parser::parse
    overflow_checks,  \* the build: TRUE when integer overflow panics (debug), FALSE when it wraps (release)
    pos,              \* Tokenizer.pos of the tokenizer being iterated
    tokens,           \* the tokens Tokenizer::next has returned so far
    last,             \* what the last call of Tokenizer::next returned
    parsed,           \* what Parser::parse returned for src
    doc,              \* the document of the last calculate call
    result            \* what the last calculate call returned

vars == <<src, overflow_checks, pos, tokens, last, parsed, doc, result>>

(***************************************************************************)
(* Bytes                                                                   *)
(***************************************************************************)
Whitespace == {" ", "\t", "\n", "\f", "\r"}

Digit == {"0", "1", "2", "3", "4", "5", "6", "7", "8", "9"}

Alphabetic ==
    {"a", "b", "c", "d", "e", "f", "g", "h", "i", "j", "k", "l", "m",
     "n", "o", "p", "q", "r", "s", "t", "u", "v", "w", "x", "y", "z",
     "A", "B", "C", "D", "E", "F", "G", "H", "I", "J", "K", "L", "M",
     "N", "O", "P", "Q", "R", "S", "T", "U", "V", "W", "X", "Y", "Z"}

\* data.get(k) on the whole source: the byte at offset k, or "" for None.
Byte(s, k) == IF k >= 0 /\ k < Len(s) THEN s[k + 1] ELSE ""

Min(S) == CHOOSE x \in S : \A y \in S : x <= y

(***************************************************************************)
(* 16-bit arithmetic of the lexer (Token.len, take_while's counter)        *)
(***************************************************************************)
U16Max == 65535

\* n as a u16 when overflow wraps.
Wrap16(n) == n % (U16Max + 1)

\* a + b on u16: panics in a build with overflow checks, wraps otherwise.
Add16(a, b) ==
    [panic |-> overflow_checks /\ a + b > U16Max, n |-> Wrap16(a + b)]

(***************************************************************************)
(* take_while: the bytes from offset p on are consumed while the predicate *)
(* holds. stops is the set of offsets from p on where the predicate is     *)
(* false, given that it was true at every offset before. `end` is the      *)
(* offset where the loop breaks; the counter current_index is a u16 that   *)
(* is incremented once per consumed byte. n = 0 stands for None.           *)
(***************************************************************************)
\* The offsets of the bytes of data, for data starting at offset p of s.
Offsets(s, p) == p..(Len(s) - 1)

take_while(s, p, stops) ==
    LET end == IF stops = {} THEN Len(s) ELSE Min(stops)
        consumed == IF end > p THEN end - p ELSE 0
    IN  [panic |-> overflow_checks /\ consumed > U16Max,
         n |-> Wrap16(consumed),
         end |-> end]

skip_whitespace(s, p) ==
    LET r == take_while(s, p,
                 {k \in Offsets(s, p) :
                     s[k + 1] \notin Whitespace})
    IN  [panic |-> r.panic, n |-> r.n]

(***************************************************************************)
(* Results of a single tokenization attempt: Ok((kind, len)), Err(error),  *)
(* or a panic of the build.                                                *)
(***************************************************************************)
TokOk(kind, len) == [res |-> "ok", kind |-> kind, len |-> len, err |-> ""]
TokErr(err) == [res |-> "err", kind |-> "", len |-> 0, err |-> err]
TokPanic == [res |-> "panic", kind |-> "", len |-> 0, err |-> ""]

\* Ok((kind, a + b)) with the addition done on u16.
TokOkAdd(kind, a, b) ==
    IF Add16(a, b).panic THEN TokPanic ELSE TokOk(kind, Add16(a, b).n)

\* &data[..end] == text, for data starting at offset p.
SliceIs(s, p, end, text) ==
    /\ end = Len(text)
    /\ p + end <= Len(s)
    /\ \A j \in 1..Len(text) : s[p + j] = text[j]

tokenize_identifier(s, p) ==
    LET r == take_while(s, p,
                 {k \in Offsets(s, p) :
                     s[k + 1] \in Whitespace \cup {")", "]", ","}})
    IN  IF r.panic THEN TokPanic
        ELSE IF r.n > 0 /\ Byte(s, p + r.n - 1) = "_"
             THEN TokOk("Identifier", r.n)
             ELSE TokErr("InvalidIdentifier")

\* A tokenize_string in which a backslash escapes one byte, so that the
\* second of two backslashes is an escaped backslash and escapes nothing.
tokenize_string_pairs(s, p, quote) ==
    LET Escaped(k) ==
            LET run == {j \in (p + 1)..(k - 1) : \A i \in j..(k - 1) : s[i + 1] = "\\"}
            IN  (Cardinality(run) % 2) = 1
        r == take_while(s, p + 1,
                 {k \in Offsets(s, p + 1) : s[k + 1] = quote /\ ~Escaped(k)})
        ended_with_terminator == r.end < Len(s)
    IN  IF r.panic THEN TokPanic
        ELSE IF r.n > 0
             THEN IF ended_with_terminator
                  THEN TokOkAdd("QuotedString", r.n, 2)
                  ELSE TokErr("UnterminatedString")
             ELSE IF ~ended_with_terminator \/ Len(s) - p < 2
                  THEN TokErr("UnterminatedString")
                  ELSE TokOk("QuotedString", 2)

\* last_backslash is TRUE at a byte exactly when the byte before it, inside
\* the string, is a backslash: every consumed byte sets it to (c = '\\').
tokenize_string(s, p, quote) ==
    LET r == take_while(s, p + 1,
                 {k \in Offsets(s, p + 1) :
                     s[k + 1] = quote /\ ~(k > p + 1 /\ s[k] = "\\")})
        ended_with_terminator == r.end < Len(s)
    IN  IF r.panic THEN TokPanic
        ELSE IF r.n > 0
             THEN IF ended_with_terminator
                  THEN TokOkAdd("QuotedString", r.n, 2)
                  ELSE TokErr("UnterminatedString")
             ELSE IF ~ended_with_terminator \/ Len(s) - p < 2
                  THEN TokErr("UnterminatedString")
                  ELSE TokOk("QuotedString", 2)

tokenize_selector_path(s, p) ==
    LET r == take_while(s, p + 1,
                 {k \in Offsets(s, p + 1) :
                     s[k + 1] \in Whitespace \cup {")", "]"}})
    IN  IF r.panic THEN TokPanic
        ELSE IF r.n > 0 THEN TokOkAdd("SelectorPath", r.n, 1)
             ELSE TokErr("InvalidIdentifier")

tokenize_bool(s, p) ==
    LET r == take_while(s, p,
                 {k \in Offsets(s, p) :
                     s[k + 1] \notin Alphabetic})
    IN  IF r.panic THEN TokPanic
        ELSE IF r.n > 0 /\ SliceIs(s, p, r.n, <<"t", "r", "u", "e">>)
             THEN TokOk("BooleanTrue", r.n)
        ELSE IF r.n > 0 /\ SliceIs(s, p, r.n, <<"f", "a", "l", "s", "e">>)
             THEN TokOk("BooleanFalse", r.n)
        ELSE TokErr("InvalidBool")

\* A keyword lexer that also ends the keyword at `)`, `]`, `,` and at the end
\* of input.
tokenize_keyword_end_markers(s, p, keyword, kind) ==
    LET r == take_while(s, p,
                 {k \in Offsets(s, p) :
                     s[k + 1] \in Whitespace \cup {")", "]", ","}})
    IN  IF r.panic THEN TokPanic
        ELSE IF r.n > 0 /\ SliceIs(s, p, r.n, keyword)
             THEN TokOk(kind, r.n)
             ELSE TokErr("InvalidKeyword")

tokenize_keyword(s, p, keyword, kind) ==
    LET r == take_while(s, p,
                 {k \in Offsets(s, p) :
                     s[k + 1] \in Whitespace})
    IN  IF r.panic THEN TokPanic
        ELSE IF r.n > 0 /\ Len(s) - p > Len(keyword) /\ SliceIs(s, p, r.n, keyword)
             THEN TokOk(kind, r.n)
             ELSE TokErr("InvalidKeyword")

tokenize_null(s, p) ==
    LET r == take_while(s, p,
                 {k \in Offsets(s, p) :
                     s[k + 1] \notin Alphabetic})
    IN  IF r.panic THEN TokPanic
        ELSE IF r.n > 0 /\ SliceIs(s, p, r.n, <<"N", "U", "L", "L">>)
             THEN TokOk("Null", r.n)
             ELSE TokErr("InvalidKeyword")

\* A tokenize_number that ends the token before a second '.', without error.
tokenize_number_ends_at_dot(s, p) ==
    LET SecondDot(k) == s[k + 1] = "." /\ \E j \in p..(k - 1) : s[j + 1] = "."
        r == take_while(s, p,
                 {k \in Offsets(s, p) :
                     \/ SecondDot(k)
                     \/ s[k + 1] \notin Digit \cup {".", "-", "+", "e"}})
    IN  IF r.panic THEN TokPanic
        ELSE IF r.n > 0 THEN TokOk("Number", r.n)
             ELSE TokErr("InvalidNumber")

\* dot_seen is TRUE at a byte exactly when an earlier byte of the run is '.';
\* bad_number is set when the loop breaks at a second '.'.
tokenize_number(s, p) ==
    LET SecondDot(k) == s[k + 1] = "." /\ \E j \in p..(k - 1) : s[j + 1] = "."
        r == take_while(s, p,
                 {k \in Offsets(s, p) :
                     \/ SecondDot(k)
                     \/ s[k + 1] \notin Digit \cup {".", "-", "+", "e"}})
        bad_number == r.end < Len(s) /\ SecondDot(r.end)
    IN  IF r.panic THEN TokPanic
        ELSE IF r.n > 0 /\ ~bad_number THEN TokOk("Number", r.n)
             ELSE TokErr("InvalidNumber")

KwOr == <<"O", "R">>
KwIn == <<"I", "N">>
KwStartsWith == <<"S", "T", "A", "R", "T", "S", "_", "W", "I", "T", "H">>
KwEndsWith == <<"E", "N", "D", "S", "_", "W", "I", "T", "H">>
KwBetween == <<"B", "E", "T", "W", "E", "E", "N">>
KwContains == <<"C", "O", "N", "T", "A", "I", "N", "S">>
KwContainsAny == KwContains \o <<"_", "A", "N", "Y">>
KwContainsAll == KwContains \o <<"_", "A", "L", "L">>
KwCoerce == <<"C", "O", "E", "R", "C", "E">>

\* Try to lex a single token from the bytes at offset p on (p < Len(s)).
tokenize_single_token(s, p) ==
    LET b == Byte(s, p)
        b1 == Byte(s, p + 1)
    IN  CASE b = "=" /\ b1 = "=" -> TokOk("Equals", 2)
          [] b = "=" /\ b1 # "=" -> TokOk("Equals", 1)
          [] b = "+" -> IF b1 \in Digit THEN tokenize_number(s, p)
                                        ELSE TokOk("Add", 1)
          [] b = "-" -> IF b1 \in Digit THEN tokenize_number(s, p)
                                        ELSE TokOk("Subtract", 1)
          [] b = "*" -> TokOk("Multiply", 1)
          [] b = "/" -> TokOk("Divide", 1)
          [] b = ">" /\ b1 = "=" -> TokOk("Gte", 2)
          [] b = ">" /\ b1 # "=" -> TokOk("Gt", 1)
          [] b = "<" /\ b1 = "=" -> TokOk("Lte", 2)
          [] b = "<" /\ b1 # "=" -> TokOk("Lt", 1)
          [] b = "(" -> TokOk("OpenParen", 1)
          [] b = ")" -> TokOk("CloseParen", 1)
          [] b = "[" -> TokOk("OpenBracket", 1)
          [] b = "]" -> TokOk("CloseBracket", 1)
          [] b = "," -> TokOk("Comma", 1)
          [] b = "!" -> TokOk("Not", 1)
          [] b \in {"\"", "'"} -> tokenize_string(s, p, b)
          [] b = "." -> tokenize_selector_path(s, p)
          [] b \in {"t", "f"} -> tokenize_bool(s, p)
          [] b = "&" /\ b1 = "&" -> TokOk("And", 2)
          [] b = "|" /\ b1 = "|" -> TokOk("Or", 2)
          [] b = "O" -> tokenize_keyword(s, p, KwOr, "Or")
          [] b = "C" ->
                IF Byte(s, p + 2) = "N"
                THEN IF Byte(s, p + 8) = "_"
                     THEN IF Byte(s, p + 10) = "N"
                          THEN tokenize_keyword(s, p, KwContainsAny, "ContainsAny")
                          ELSE tokenize_keyword(s, p, KwContainsAll, "ContainsAll")
                     ELSE tokenize_keyword(s, p, KwContains, "Contains")
                ELSE tokenize_keyword(s, p, KwCoerce, "Coerce")
          [] b = "I" -> tokenize_keyword(s, p, KwIn, "In")
          [] b = "S" -> tokenize_keyword(s, p, KwStartsWith, "StartsWith")
          [] b = "E" -> tokenize_keyword(s, p, KwEndsWith, "EndsWith")
          [] b = "B" -> tokenize_keyword(s, p, KwBetween, "Between")
          [] b = "N" -> tokenize_null(s, p)
          [] b = "_" -> tokenize_identifier(s, p)
          [] b \in Digit -> tokenize_number(s, p)
          [] OTHER -> TokErr("UnsupportedCharacter")

(***************************************************************************)
(* Tokenizer::next with the cursor at offset p. res is "tok" (Some(Ok)),   *)
(* "none" (None), "err" (Some(Err)) or "panic"; pos is the cursor after    *)
(* the call.                                                               *)
(***************************************************************************)
NoToken(res, err, p) ==
    [res |-> res, kind |-> "", start |-> 0, len |-> 0, err |-> err, pos |-> p]

\* The token at offset q, after the whitespace, from the result t of
\* tokenize_single_token.
next_token_at(s, q, t) ==
    IF q >= Len(s) THEN NoToken("none", "", q)
    ELSE IF t.res = "panic" THEN NoToken("panic", "", q)
    ELSE IF t.res = "err" THEN NoToken("err", t.err, q)
    ELSE [res |-> "tok", kind |-> t.kind, start |-> q, len |-> t.len,
          err |-> "", pos |-> q + t.len]

next_token_skipped(s, p, ws) ==
    IF ws.panic THEN NoToken("panic", "", p)
    ELSE next_token_at(s, p + ws.n, tokenize_single_token(s, p + ws.n))

next_token(s, p) == next_token_skipped(s, p, skip_whitespace(s, p))

(***************************************************************************)
(* Number: binary64, modelled as an exact fraction num/den (den > 0, in    *)
(* lowest terms) or one of NaN, +infinity, -infinity. Rounding, overflow   *)
(* to infinity and the sign of zero are not modelled.                      *)
(***************************************************************************)
Abs(n) == IF n < 0 THEN -n ELSE n

RECURSIVE Gcd(_, _)
Gcd(a, b) == IF b = 0 THEN a ELSE Gcd(b, a % b)

Fin(n, d) ==
    LET g == Gcd(Abs(n), Abs(d))
        sgn == IF d < 0 THEN -1 ELSE 1
    IN  [cls |-> "fin", num |-> (sgn * n) \div g, den |-> (sgn * d) \div g]

NaN == [cls |-> "nan", num |-> 0, den |-> 1]
PosInf == [cls |-> "inf", num |-> 1, den |-> 1]
NegInf == [cls |-> "inf", num |-> -1, den |-> 1]

Sign(a) == IF a.num > 0 THEN 1 ELSE IF a.num < 0 THEN -1 ELSE 0
InfOf(sgn) == IF sgn < 0 THEN NegInf ELSE PosInf

F64Neg(a) == [a EXCEPT !.num = -a.num]

F64Add(a, b) ==
    CASE a.cls = "nan" \/ b.cls = "nan" -> NaN
      [] a.cls = "inf" /\ b.cls = "inf" -> IF a.num = b.num THEN a ELSE NaN
      [] a.cls = "inf" /\ b.cls = "fin" -> a
      [] a.cls = "fin" /\ b.cls = "inf" -> b
      [] OTHER -> Fin(a.num * b.den + b.num * a.den, a.den * b.den)

F64Sub(a, b) == F64Add(a, F64Neg(b))

F64Mul(a, b) ==
    IF a.cls = "nan" \/ b.cls = "nan" THEN NaN
    ELSE IF a.cls = "inf" \/ b.cls = "inf"
         THEN IF Sign(a) * Sign(b) = 0 THEN NaN ELSE InfOf(Sign(a) * Sign(b))
         ELSE Fin(a.num * b.num, a.den * b.den)

F64Div(a, b) ==
    CASE a.cls = "nan" \/ b.cls = "nan" -> NaN
      [] a.cls = "inf" /\ b.cls = "inf" -> NaN
      [] a.cls = "inf" /\ b.cls = "fin" -> IF Sign(b) < 0 THEN F64Neg(a) ELSE a
      [] a.cls = "fin" /\ b.cls = "inf" -> Fin(0, 1)
      [] OTHER ->
            IF b.num = 0 THEN (IF a.num = 0 THEN NaN ELSE InfOf(Sign(a)))
            ELSE Fin(a.num * b.den, a.den * b.num)

\* n1 == n2 on f64: NaN is equal to nothing, itself included.
F64Eq(a, b) == a.cls # "nan" /\ b.cls # "nan" /\ a = b

\* n1 < n2 on f64: every comparison with NaN is false.
F64Lt(a, b) ==
    CASE a.cls = "nan" \/ b.cls = "nan" -> FALSE
      [] a.cls = "inf" /\ b.cls = "inf" -> a.num < b.num
      [] a.cls = "inf" /\ b.cls = "fin" -> a.num < 0
      [] a.cls = "fin" /\ b.cls = "inf" -> b.num > 0
      [] OTHER -> a.num * b.den < b.num * a.den

F64Le(a, b) == F64Lt(a, b) \/ F64Eq(a, b)

(***************************************************************************)
(* str::parse::<f64> on the text of a Number token. The text holds only    *)
(* digits, '.', '+', '-' and 'e'; it is a number when it has the shape     *)
(* [sign] digits [. digits] [e [sign] digits] with a digit in the mantissa.*)
(***************************************************************************)
DigitValue(c) ==
    CASE c = "0" -> 0 [] c = "1" -> 1 [] c = "2" -> 2 [] c = "3" -> 3
      [] c = "4" -> 4 [] c = "5" -> 5 [] c = "6" -> 6 [] c = "7" -> 7
      [] c = "8" -> 8 [] c = "9" -> 9

AllDigits(t) == \A i \in 1..Len(t) : t[i] \in Digit

RECURSIVE DigitsValue(_)
DigitsValue(t) ==
    IF t = <<>> THEN 0
    ELSE 10 * DigitsValue(SubSeq(t, 1, Len(t) - 1)) + DigitValue(t[Len(t)])

RECURSIVE Pow10(_)
Pow10(n) == IF n <= 0 THEN 1 ELSE 10 * Pow10(n - 1)

\* The offset of the first occurrence of c in t, or Len(t) + 1.
IndexOf(t, c) ==
    LET I == {i \in 1..Len(t) : t[i] = c} IN IF I = {} THEN Len(t) + 1 ELSE Min(I)

Unsigned(t) == IF t # <<>> /\ t[1] \in {"+", "-"} THEN SubSeq(t, 2, Len(t)) ELSE t
Negative(t) == t # <<>> /\ t[1] = "-"

ParseF64(text) ==
    LET body == Unsigned(text)
        ie == IndexOf(body, "e")
        mant == SubSeq(body, 1, ie - 1)
        hasExp == ie <= Len(body)
        expo == SubSeq(body, ie + 1, Len(body))
        id == IndexOf(mant, ".")
        ip == SubSeq(mant, 1, id - 1)
        fp == SubSeq(mant, id + 1, Len(mant))
        ok == /\ AllDigits(ip) /\ AllDigits(fp) /\ Len(ip) + Len(fp) >= 1
              /\ hasExp => (Unsigned(expo) # <<>> /\ AllDigits(Unsigned(expo)))
        e10 == (IF hasExp
                THEN (IF Negative(expo) THEN -1 ELSE 1) * DigitsValue(Unsigned(expo))
                ELSE 0) - Len(fp)
        m == (IF Negative(text) THEN -1 ELSE 1) * DigitsValue(ip \o fp)
    IN  IF ~ok THEN [ok |-> FALSE, n |-> NaN]
        ELSE [ok |-> TRUE,
              n |-> IF e10 >= 0 THEN Fin(m * Pow10(e10), 1) ELSE Fin(m, Pow10(-e10))]

(***************************************************************************)
(* Value: the calculated Expression result                                 *)
(***************************************************************************)
VNull == [type |-> "Null"]
VString(s) == [type |-> "String", s |-> s]
VNumber(n) == [type |-> "Number", n |-> n]
VBool(b) == [type |-> "Bool", b |-> b]
VDateTime(t) == [type |-> "DateTime", t |-> t]
VArray(arr) == [type |-> "Array", arr |-> arr]
\* Object: the entries [k, v] of the BTreeMap, in key order.
VObject(entries) == [type |-> "Object", entries |-> entries]

\* left == right of Value (derive(PartialEq)): the same variant and equal payloads.
RECURSIVE ValueEq(_, _)
ValueEq(a, b) ==
    /\ a.type = b.type
    /\ CASE a.type = "Null" -> TRUE
         [] a.type = "String" -> a.s = b.s
         [] a.type = "Number" -> F64Eq(a.n, b.n)
         [] a.type = "Bool" -> a.b = b.b
         [] a.type = "DateTime" -> a.t = b.t
         [] a.type = "Array" ->
               /\ Len(a.arr) = Len(b.arr)
               /\ \A i \in 1..Len(a.arr) : ValueEq(a.arr[i], b.arr[i])
         [] a.type = "Object" ->
               /\ Len(a.entries) = Len(b.entries)
               /\ \A i \in 1..Len(a.entries) :
                     /\ a.entries[i].k = b.entries[i].k
                     /\ ValueEq(a.entries[i].v, b.entries[i].v)

(***************************************************************************)
(* String: text as a sequence of ASCII bytes (one char per byte).          *)
(***************************************************************************)
\* The printable ASCII bytes in code order, from ' ' (32) to '~' (126); the
\* backquote (96) keeps its place in the table and is not a byte of the model.
Ascii ==
    <<" ", "!", "\"", "#", "$", "%", "&", "'", "(", ")", "*", "+",
      ",", "-", ".", "/", "0", "1", "2", "3", "4", "5", "6", "7",
      "8", "9", ":", ";", "<", "=", ">", "?", "@", "A", "B", "C",
      "D", "E", "F", "G", "H", "I", "J", "K", "L", "M", "N", "O",
      "P", "Q", "R", "S", "T", "U", "V", "W", "X", "Y", "Z", "[",
      "\\", "]", "^", "_", "(96)", "a", "b", "c", "d", "e", "f", "g",
      "h", "i", "j", "k", "l", "m", "n", "o", "p", "q", "r", "s",
      "t", "u", "v", "w", "x", "y", "z", "{", "|", "}", "~">>

\* The byte's code; bytes outside the table order before it.
Code(c) ==
    LET I == {i \in 1..Len(Ascii) : Ascii[i] = c} IN IF I = {} THEN 0 ELSE 31 + Min(I)

\* s1 < s2 on String: byte-wise lexicographic order.
RECURSIVE StrLt(_, _)
StrLt(s1, s2) ==
    IF s2 = <<>> THEN FALSE
    ELSE IF s1 = <<>> THEN TRUE
    ELSE IF s1[1] # s2[1] THEN Code(s1[1]) < Code(s2[1])
    ELSE StrLt(Tail(s1), Tail(s2))

StrLe(s1, s2) == s1 = s2 \/ StrLt(s1, s2)

\* s1.contains(&s2): s2 is a substring of s1.
StrContains(s1, s2) ==
    \E i \in 0..(Len(s1) - Len(s2)) : SubSeq(s1, i + 1, i + Len(s2)) = s2

starts_with(s1, s2) == Len(s2) <= Len(s1) /\ SubSeq(s1, 1, Len(s2)) = s2

ends_with(s1, s2) ==
    Len(s2) <= Len(s1) /\ SubSeq(s1, Len(s1) - Len(s2) + 1, Len(s1)) = s2

to_lowercase(s) ==
    [i \in 1..Len(s) |->
        IF Code(s[i]) >= 65 /\ Code(s[i]) <= 90 THEN Ascii[Code(s[i]) + 32 - 31] ELSE s[i]]

to_uppercase(s) ==
    [i \in 1..Len(s) |->
        IF Code(s[i]) >= 97 /\ Code(s[i]) <= 122 THEN Ascii[Code(s[i]) - 32 - 31] ELSE s[i]]

\* arr.contains(&v) on Vec<Value>.
ArrContains(arr, v) == \E i \in 1..Len(arr) : ValueEq(arr[i], v)

(***************************************************************************)
(* External collaborators: anydate::parse_utc and the JSON path lookup.    *)
(***************************************************************************)
Date1 ==
    <<"2", "0", "2", "0", "-", "0", "1", "-", "0", "2", "T",
      "0", "3", ":", "0", "4", ":", "0", "5", "Z">>
Date2 ==
    <<"2", "0", "1", "9", "-", "0", "1", "-", "0", "1", "T",
      "0", "0", ":", "0", "0", ":", "0", "0", "Z">>

Date3 ==
    <<"2", "0", "2", "1", "-", "0", "1", "-", "0", "1", "T",
      "0", "0", ":", "0", "0", ":", "0", "0", "Z">>

\* anydate::parse_utc(s): the instant as seconds since the epoch, for the
\* date strings of the model; every other string of the model is no date.
parse_utc(s) ==
    CASE s = Date1 -> [ok |-> TRUE, t |-> 1577934245]
      [] s = Date2 -> [ok |-> TRUE, t |-> 1546300800]
      [] s = Date3 -> [ok |-> TRUE, t |-> 1609459200]
      [] OTHER -> [ok |-> FALSE, t |-> 0]

\* get_bytes(json, path).into(): a document is the function from its paths
\* to the Values found there; a path the document does not have gives Null.
get_bytes(json, path) == IF path \in DOMAIN json THEN json[path] ELSE VNull

\* The empty byte slice &[] that the parser folds constants against.
EmptyJson == <<>>

(***************************************************************************)
(* The evaluator. An Expression is a record whose field `node` names the   *)
(* struct; calculate returns Ok(v), or Err(err) with the operator symbol   *)
(* `op` that the error's detail text carries.                              *)
(***************************************************************************)
CalcOk(v) == [res |-> "ok", v |-> v, err |-> "", op |-> ""]
CalcErr(err, op) == [res |-> "err", v |-> VNull, err |-> err, op |-> op]

UnsupportedTypeComparison(op) == CalcErr("UnsupportedTypeComparison", op)
UnsupportedCOERCE(op) == CalcErr("UnsupportedCOERCE", op)

\* The match of each calculate, on the operands' Values.
\* A Between whose bounds belong to the interval.
Between_inclusive(value, left, right) ==
    CASE value.type = "String" /\ left.type = "String" /\ right.type = "String" ->
            CalcOk(VBool(StrLe(left.s, value.s) /\ StrLe(value.s, right.s)))
      [] value.type = "Number" /\ left.type = "Number" /\ right.type = "Number" ->
            CalcOk(VBool(F64Le(left.n, value.n) /\ F64Le(value.n, right.n)))
      [] value.type = "DateTime" /\ left.type = "DateTime" /\ right.type = "DateTime" ->
            CalcOk(VBool(value.t >= left.t /\ value.t <= right.t))
      [] OTHER ->
            IF value.type = "Null" \/ left.type = "Null" \/ right.type = "Null"
            THEN CalcOk(VBool(FALSE))
            ELSE UnsupportedTypeComparison("BETWEEN")

Between(value, left, right) ==
    CASE value.type = "String" /\ left.type = "String" /\ right.type = "String" ->
            CalcOk(VBool(StrLt(left.s, value.s) /\ StrLt(value.s, right.s)))
      [] value.type = "Number" /\ left.type = "Number" /\ right.type = "Number" ->
            CalcOk(VBool(F64Lt(left.n, value.n) /\ F64Lt(value.n, right.n)))
      [] value.type = "DateTime" /\ left.type = "DateTime" /\ right.type = "DateTime" ->
            CalcOk(VBool(value.t > left.t /\ value.t < right.t))
      [] OTHER ->
            IF value.type = "Null" \/ left.type = "Null" \/ right.type = "Null"
            THEN CalcOk(VBool(FALSE))
            ELSE UnsupportedTypeComparison("BETWEEN")

COERCEDateTime(value) ==
    CASE value.type = "String" ->
            IF parse_utc(value.s).ok THEN CalcOk(VDateTime(parse_utc(value.s).t))
                                     ELSE CalcOk(VNull)
      [] value.type = "Null" -> CalcOk(value)
      [] OTHER -> UnsupportedCOERCE("COERCE datetime")

\* An Add for which Null + Null is Null.
Add_null_is_neutral(left, right) ==
    CASE left.type = "Null" /\ right.type = "Null" -> CalcOk(VNull)
      [] left.type = "String" /\ right.type = "String" -> CalcOk(VString(left.s \o right.s))
      [] left.type = "String" /\ right.type = "Null" -> CalcOk(left)
      [] left.type = "Null" /\ right.type = "String" -> CalcOk(right)
      [] left.type = "Number" /\ right.type = "Number" -> CalcOk(VNumber(F64Add(left.n, right.n)))
      [] left.type = "Number" /\ right.type = "Null" -> CalcOk(left)
      [] left.type = "Null" /\ right.type = "Number" -> CalcOk(right)
      [] OTHER -> UnsupportedTypeComparison("+")

Add(left, right) ==
    CASE left.type = "String" /\ right.type = "String" -> CalcOk(VString(left.s \o right.s))
      [] left.type = "String" /\ right.type = "Null" -> CalcOk(left)
      [] left.type = "Null" /\ right.type = "String" -> CalcOk(right)
      [] left.type = "Number" /\ right.type = "Number" -> CalcOk(VNumber(F64Add(left.n, right.n)))
      [] left.type = "Number" /\ right.type = "Null" -> CalcOk(left)
      [] left.type = "Null" /\ right.type = "Number" -> CalcOk(right)
      [] OTHER -> UnsupportedTypeComparison("+")

Sub(left, right) ==
    IF left.type = "Number" /\ right.type = "Number"
    THEN CalcOk(VNumber(F64Sub(left.n, right.n)))
    ELSE UnsupportedTypeComparison("-")

Mult(left, right) ==
    IF left.type = "Number" /\ right.type = "Number"
    THEN CalcOk(VNumber(F64Mul(left.n, right.n)))
    ELSE UnsupportedTypeComparison("*")

Div(left, right) ==
    IF left.type = "Number" /\ right.type = "Number"
    THEN CalcOk(VNumber(F64Div(left.n, right.n)))
    ELSE UnsupportedTypeComparison("/")

Eq(left, right) == CalcOk(VBool(ValueEq(left, right)))

\* The ordering operators: String, Number and DateTime pairs.
Gt(left, right) ==
    CASE left.type = "String" /\ right.type = "String" -> CalcOk(VBool(StrLt(right.s, left.s)))
      [] left.type = "Number" /\ right.type = "Number" -> CalcOk(VBool(F64Lt(right.n, left.n)))
      [] left.type = "DateTime" /\ right.type = "DateTime" -> CalcOk(VBool(left.t > right.t))
      [] OTHER -> UnsupportedTypeComparison(">")

Gte(left, right) ==
    CASE left.type = "String" /\ right.type = "String" -> CalcOk(VBool(StrLe(right.s, left.s)))
      [] left.type = "Number" /\ right.type = "Number" -> CalcOk(VBool(F64Le(right.n, left.n)))
      [] left.type = "DateTime" /\ right.type = "DateTime" -> CalcOk(VBool(left.t >= right.t))
      [] OTHER -> UnsupportedTypeComparison(">=")

Lt(left, right) ==
    CASE left.type = "String" /\ right.type = "String" -> CalcOk(VBool(StrLt(left.s, right.s)))
      [] left.type = "Number" /\ right.type = "Number" -> CalcOk(VBool(F64Lt(left.n, right.n)))
      [] left.type = "DateTime" /\ right.type = "DateTime" -> CalcOk(VBool(left.t < right.t))
      [] OTHER -> UnsupportedTypeComparison("<")

Lte(left, right) ==
    CASE left.type = "String" /\ right.type = "String" -> CalcOk(VBool(StrLe(left.s, right.s)))
      [] left.type = "Number" /\ right.type = "Number" -> CalcOk(VBool(F64Le(left.n, right.n)))
      [] left.type = "DateTime" /\ right.type = "DateTime" -> CalcOk(VBool(left.t <= right.t))
      [] OTHER -> UnsupportedTypeComparison("<=")

\* A CoerceLowercase that lets Null through, as COERCEDateTime does.
CoerceLowercase_null_through(v) ==
    IF v.type = "String" THEN CalcOk(VString(to_lowercase(v.s)))
    ELSE IF v.type = "Null" THEN CalcOk(v)
    ELSE UnsupportedCOERCE("COERCE lowercase")

CoerceLowercase(v) ==
    IF v.type = "String" THEN CalcOk(VString(to_lowercase(v.s)))
                         ELSE UnsupportedCOERCE("COERCE lowercase")

CoerceUppercase(v) ==
    IF v.type = "String" THEN CalcOk(VString(to_uppercase(v.s)))
                         ELSE UnsupportedCOERCE("COERCE uppercase")

Not(v) ==
    IF v.type = "Bool" THEN CalcOk(VBool(~v.b)) ELSE UnsupportedTypeComparison("!")

Or(left, right) ==
    IF left.type = "Bool" /\ right.type = "Bool"
    THEN CalcOk(VBool(left.b \/ right.b))
    ELSE UnsupportedTypeComparison("||")

\* An && that a false left operand decides alone.
And_short_circuit(left, right) ==
    IF left.type = "Bool" /\ ~left.b THEN CalcOk(VBool(FALSE))
    ELSE IF left.type = "Bool" /\ right.type = "Bool"
    THEN CalcOk(VBool(left.b /\ right.b))
    ELSE UnsupportedTypeComparison("&&")

And(left, right) ==
    IF left.type = "Bool" /\ right.type = "Bool"
    THEN CalcOk(VBool(left.b /\ right.b))
    ELSE UnsupportedTypeComparison("&&")

Contains(left, right) ==
    CASE left.type = "String" /\ right.type = "String" ->
            CalcOk(VBool(StrContains(left.s, right.s)))
      [] left.type = "Array" -> CalcOk(VBool(ArrContains(left.arr, right)))
      [] OTHER -> UnsupportedTypeComparison("CONTAINS")

\* The test of one element of the right operand, shared by CONTAINS_ANY (any)
\* and CONTAINS_ALL (all); the result lists one test per char or element.
ContainsTests(left, right) ==
    CASE left.type = "String" /\ right.type = "String" ->
            [i \in 1..Len(right.s) |-> \E j \in 1..Len(left.s) : left.s[j] = right.s[i]]
      [] left.type = "Array" /\ right.type = "Array" ->
            [i \in 1..Len(right.arr) |-> ArrContains(left.arr, right.arr[i])]
      [] left.type = "Array" /\ right.type = "String" ->
            [i \in 1..Len(right.s) |-> ArrContains(left.arr, VString(<<right.s[i]>>))]
      [] left.type = "String" /\ right.type = "Array" ->
            [i \in 1..Len(right.arr) |->
                /\ right.arr[i].type = "String"
                /\ StrContains(left.s, right.arr[i].s)]

ContainsPairing(left, right) ==
    left.type \in {"String", "Array"} /\ right.type \in {"String", "Array"}

ContainsAny(left, right) ==
    IF ContainsPairing(left, right)
    THEN CalcOk(VBool(\E i \in DOMAIN ContainsTests(left, right) :
                          ContainsTests(left, right)[i]))
    ELSE UnsupportedTypeComparison("CONTAINS_ANY")

\* A ContainsAll that wants at least one element in the right operand.
ContainsAll_nonempty(left, right) ==
    IF ContainsPairing(left, right)
    THEN CalcOk(VBool(/\ DOMAIN ContainsTests(left, right) # {}
                      /\ \A i \in DOMAIN ContainsTests(left, right) :
                            ContainsTests(left, right)[i]))
    ELSE UnsupportedTypeComparison("CONTAINS_ALL")

ContainsAll(left, right) ==
    IF ContainsPairing(left, right)
    THEN CalcOk(VBool(\A i \in DOMAIN ContainsTests(left, right) :
                          ContainsTests(left, right)[i]))
    ELSE UnsupportedTypeComparison("CONTAINS_ALL")

StartsWith(left, right) ==
    IF left.type = "String" /\ right.type = "String"
    THEN CalcOk(VBool(starts_with(left.s, right.s)))
    ELSE UnsupportedTypeComparison("+")

EndsWith(left, right) ==
    IF left.type = "String" /\ right.type = "String"
    THEN CalcOk(VBool(ends_with(left.s, right.s)))
    ELSE UnsupportedTypeComparison("+")

\* An In that looks at the first element of the array alone.
In_first_element(left, right) ==
    IF right.type = "Array"
    THEN CalcOk(VBool(right.arr # <<>> /\ ValueEq(right.arr[1], left)))
    ELSE UnsupportedTypeComparison("+")

In(left, right) ==
    IF right.type = "Array" THEN CalcOk(VBool(ArrContains(right.arr, left)))
                            ELSE UnsupportedTypeComparison("+")

\* The structs with a left and a right operand.
BinaryNodes ==
    {"Add", "Sub", "Mult", "Div", "Eq", "Gt", "Gte", "Lt", "Lte", "Or", "And",
     "Contains", "ContainsAny", "ContainsAll", "StartsWith", "EndsWith", "In"}

Binary(node, left, right) ==
    CASE node = "Add" -> Add(left, right)
      [] node = "Sub" -> Sub(left, right)
      [] node = "Mult" -> Mult(left, right)
      [] node = "Div" -> Div(left, right)
      [] node = "Eq" -> Eq(left, right)
      [] node = "Gt" -> Gt(left, right)
      [] node = "Gte" -> Gte(left, right)
      [] node = "Lt" -> Lt(left, right)
      [] node = "Lte" -> Lte(left, right)
      [] node = "Or" -> Or(left, right)
      [] node = "And" -> And(left, right)
      [] node = "Contains" -> Contains(left, right)
      [] node = "ContainsAny" -> ContainsAny(left, right)
      [] node = "ContainsAll" -> ContainsAll(left, right)
      [] node = "StartsWith" -> StartsWith(left, right)
      [] node = "EndsWith" -> EndsWith(left, right)
      [] node = "In" -> In(left, right)

\* `let x = self.x.calculate(json)?;` for each operand in the order of the
\* code, and then the match on the Values.
RECURSIVE calculate(_, _)
calculate(e, json) ==
    CASE e.node = "Str" -> CalcOk(VString(e.s))
      [] e.node = "Num" -> CalcOk(VNumber(e.n))
      [] e.node = "Bool" -> CalcOk(VBool(e.b))
      [] e.node = "Null" -> CalcOk(VNull)
      [] e.node = "CoercedConst" -> CalcOk(e.value)
      [] e.node = "SelectorPath" -> CalcOk(get_bytes(json, e.ident))
      [] e.node = "Arr" ->
            LET rs == [i \in 1..Len(e.arr) |-> calculate(e.arr[i], json)]
                failed == {i \in 1..Len(e.arr) : rs[i].res # "ok"}
            IN  IF failed = {} THEN CalcOk(VArray([i \in 1..Len(e.arr) |-> rs[i].v]))
                ELSE rs[Min(failed)]
      [] e.node \in {"Not", "COERCEDateTime", "CoerceLowercase", "CoerceUppercase"} ->
            LET v == calculate(e.value, json)
            IN  IF v.res # "ok" THEN v
                ELSE (CASE e.node = "Not" -> Not(v.v)
                        [] e.node = "COERCEDateTime" -> COERCEDateTime(v.v)
                        [] e.node = "CoerceLowercase" -> CoerceLowercase(v.v)
                        [] e.node = "CoerceUppercase" -> CoerceUppercase(v.v))
      [] e.node = "Between" ->
            LET left == calculate(e.left, json)
                right == calculate(e.right, json)
                value == calculate(e.value, json)
            IN  IF left.res # "ok" THEN left
                ELSE IF right.res # "ok" THEN right
                ELSE IF value.res # "ok" THEN value
                ELSE Between(value.v, left.v, right.v)
      [] e.node \in BinaryNodes ->
            LET left == calculate(e.left, json)
                right == calculate(e.right, json)
            IN  IF left.res # "ok" THEN left
                ELSE IF right.res # "ok" THEN right
                ELSE Binary(e.node, left.v, right.v)

(***************************************************************************)
(* The parser. Peekable<Tokenizer> is modelled by the cursor alone: a      *)
(* peeked item is the item the next call of next() returns, and that is    *)
(* next_token at the cursor. A parse function returns Ok(Some(e)),         *)
(* Ok(None), Err(err) or panics; pos is the cursor after it.               *)
(***************************************************************************)
NoExpr == [node |-> "None"]
EStr(s) == [node |-> "Str", s |-> s]
ENum(n) == [node |-> "Num", n |-> n]
EBool(b) == [node |-> "Bool", b |-> b]
ENull == [node |-> "Null"]
ESelectorPath(ident) == [node |-> "SelectorPath", ident |-> ident]
EArr(arr) == [node |-> "Arr", arr |-> arr]
ECoercedConst(value) == [node |-> "CoercedConst", value |-> value]
EUnary(node, value) == [node |-> node, value |-> value]
EBinary(node, left, right) == [node |-> node, left |-> left, right |-> right]
EBetween(left, right, value) ==
    [node |-> "Between", left |-> left, right |-> right, value |-> value]

POk(e, p) == [res |-> "ok", some |-> TRUE, e |-> e, pos |-> p, err |-> ""]
PNone(p) == [res |-> "ok", some |-> FALSE, e |-> NoExpr, pos |-> p, err |-> ""]
PErr(err, p) == [res |-> "err", some |-> FALSE, e |-> NoExpr, pos |-> p, err |-> err]
PPanic(p) == [res |-> "panic", some |-> FALSE, e |-> NoExpr, pos |-> p, err |-> ""]

\* `token?` on an item that is no token: the lex error becomes the parse error.
PLex(t) == IF t.res = "panic" THEN PPanic(t.pos) ELSE PErr(t.err, t.pos)

\* &self.exp[start..start + len] of a token.
TokenText(s, t) == SubSeq(s, t.start + 1, t.start + t.len)

\* The struct a binary operator token builds.
OperatorNode(kind) ==
    CASE kind = "Add" -> "Add"
      [] kind = "Subtract" -> "Sub"
      [] kind = "Multiply" -> "Mult"
      [] kind = "Divide" -> "Div"
      [] kind = "Equals" -> "Eq"
      [] kind \in {"Gt", "Gte", "Lt", "Lte", "StartsWith", "EndsWith", "In",
                   "Contains", "ContainsAny", "ContainsAll"} -> kind

BinaryOperatorKinds ==
    {"Add", "Subtract", "Multiply", "Divide", "Equals", "Gt", "Gte", "Lt", "Lte",
     "StartsWith", "EndsWith", "In", "Contains", "ContainsAny", "ContainsAll"}

\* The token after an operator token, or the error of its absence.
next_operator_token_or(t) ==
    IF t.res = "none"
    THEN NoToken("err", "no value found after operation", t.pos)
    ELSE t

next_operator_token(s, p) == next_operator_token_or(next_token(s, p))

ConstEligible == {"QuotedString", "Number", "BooleanFalse", "BooleanTrue", "Null"}

IdentDatetime == <<"_", "d", "a", "t", "e", "t", "i", "m", "e", "_">>
IdentLowercase == <<"_", "l", "o", "w", "e", "r", "c", "a", "s", "e", "_">>
IdentUppercase == <<"_", "u", "p", "p", "e", "r", "c", "a", "s", "e", "_">>

\* A fold that keeps the runtime node when the constant cannot be computed.
coerce_ident_keep_on_error(ident, expression, const_eligible, p) ==
    CASE ident = IdentDatetime ->
            LET value == EUnary("COERCEDateTime", expression)
                folded == calculate(value, EmptyJson)
            IN  IF const_eligible /\ folded.res = "ok"
                THEN POk(ECoercedConst(folded.v), p)
                ELSE POk(value, p)
      [] ident = IdentLowercase -> POk(EUnary("CoerceLowercase", expression), p)
      [] ident = IdentUppercase -> POk(EUnary("CoerceUppercase", expression), p)
      [] OTHER -> PErr("invalid COERCE data type", p)

\* A fold that stores the literal's own value, not the coerced one.
coerce_ident_fold_literal(ident, expression, const_eligible, p) ==
    CASE ident = IdentDatetime ->
            LET value == EUnary("COERCEDateTime", expression)
                folded == calculate(expression, EmptyJson)
            IN  IF ~const_eligible THEN POk(value, p)
                ELSE IF folded.res = "ok" THEN POk(ECoercedConst(folded.v), p)
                ELSE PErr(folded.err, p)
      [] ident = IdentLowercase -> POk(EUnary("CoerceLowercase", expression), p)
      [] ident = IdentUppercase -> POk(EUnary("CoerceUppercase", expression), p)
      [] OTHER -> PErr("invalid COERCE data type", p)

\* The arm of `match ident.as_ref()` in the COERCE loop: the expression
\* wrapped by the coercion the identifier names, at cursor p.
coerce_ident(ident, expression, const_eligible, p) ==
    CASE ident = IdentDatetime ->
            LET value == EUnary("COERCEDateTime", expression)
                folded == calculate(value, EmptyJson)
            IN  IF ~const_eligible THEN POk(value, p)
                ELSE IF folded.res = "ok" THEN POk(ECoercedConst(folded.v), p)
                ELSE PErr(folded.err, p)
      [] ident = IdentLowercase -> POk(EUnary("CoerceLowercase", expression), p)
      [] ident = IdentUppercase -> POk(EUnary("CoerceUppercase", expression), p)
      [] OTHER -> PErr("invalid COERCE data type", p)

RECURSIVE parse_expression(_, _, _)
RECURSIVE parse_value(_, _)
RECURSIVE parse_operation(_, _, _)
RECURSIVE parse_array(_, _, _)
RECURSIVE parse_coerce(_, _, _, _)

\* The end of an iteration of the loop of parse_expression: `current = r?`.
parse_expression_current(s, r) ==
    IF r.res # "ok" THEN r
    ELSE parse_expression(s, r.pos, r)

\* An iteration of the loop of parse_expression on the token the tokenizer
\* returned.
parse_expression_token(s, token, current) ==
    CASE token.res = "none" -> [current EXCEPT !.pos = token.pos]
      [] token.res \in {"err", "panic"} -> PLex(token)
      [] OTHER ->
            IF current.some /\ token.kind = "CloseParen"
            THEN POk(current.e, token.pos)
            ELSE parse_expression_current(s,
                    IF current.some
                    THEN parse_operation(s, token, current.e)
                    ELSE parse_value(s, token))

\* The loop of parse_expression with the cursor at p; current is Ok(None)
\* or Ok(Some(e)).
parse_expression(s, p, current) ==
    parse_expression_token(s, next_token(s, p), current)

\* arr.push(self.parse_value(token)?) and the next iteration.
parse_array_push(s, arr, r) ==
    IF r.res # "ok" THEN r
    ELSE parse_array(s, r.pos, Append(arr, r.e))

parse_array_token(s, token, arr) ==
    CASE token.res = "none" -> PErr("unclosed Array '['", token.pos)
      [] token.res \in {"err", "panic"} -> PLex(token)
      [] token.kind = "CloseBracket" -> POk(EArr(arr), token.pos)
      [] token.kind = "Comma" -> parse_array(s, token.pos, arr)
      [] OTHER -> parse_array_push(s, arr, parse_value(s, token))

\* The loop of the OpenBracket arm of parse_value.
parse_array(s, p, arr) == parse_array_token(s, next_token(s, p), arr)

\* An end of the iteration that leaves the loop whatever token follows.
parse_coerce_peek_break(s, r, peek, const_eligible) ==
    IF r.res # "ok" THEN r
    ELSE IF peek.res = "panic" THEN PPanic(peek.pos)
    ELSE r

\* The end of an iteration of the COERCE loop: r is the coerced expression
\* and peek the token the tokenizer peeks at.
parse_coerce_peek(s, r, peek, const_eligible) ==
    IF r.res # "ok" THEN r
    ELSE IF peek.res = "panic" THEN PPanic(peek.pos)
    ELSE IF peek.res = "tok" /\ peek.kind = "Comma"
         THEN parse_coerce(s, peek.pos, r.e, const_eligible)
         ELSE r

parse_coerce_token(s, token, expression, const_eligible) ==
    CASE token.res = "none" ->
            PErr("no identifier after value for: COERCE", token.pos)
      [] token.res \in {"err", "panic"} -> PLex(token)
      [] token.res = "tok" /\ token.kind # "Identifier" ->
            PErr("COERCE missing data type identifier", token.pos)
      [] OTHER ->
            parse_coerce_peek(s,
                coerce_ident(TokenText(s, token), expression, const_eligible,
                             token.pos),
                next_token(s, token.pos),
                const_eligible)

\* The loop of the Coerce arm of parse_value.
parse_coerce(s, p, expression, const_eligible) ==
    parse_coerce_token(s, next_token(s, p), expression, const_eligible)

\* The OpenParen arm of parse_value on the result r of parse_expression.
parse_value_paren(r) ==
    IF r.res = "ok" /\ ~r.some
    THEN PErr("expression after open parenthesis '(' ends unexpectedly.", r.pos)
    ELSE r

\* The Number arm of parse_value on the parsed float n.
parse_value_number(token, n) ==
    IF n.ok THEN POk(ENum(n.n), token.pos)
    ELSE PErr("invalid float literal", token.pos)

\* The Coerce arm of parse_value on the token after COERCE and its value r.
parse_value_coerce(s, next, r) ==
    IF next.res # "tok" THEN PLex(next)
    ELSE IF r.res # "ok" THEN r
    ELSE parse_coerce(s, r.pos, r.e, next.kind \in ConstEligible)

\* The Not arm of parse_value on the token after `!` and its value r.
parse_value_not(next, r) ==
    IF next.res # "tok" THEN PLex(next)
    ELSE IF r.res # "ok" THEN r
    ELSE POk(EUnary("Not", r.e), r.pos)

parse_value_coerce_next(s, next) ==
    parse_value_coerce(s, next, parse_value(s, next))

parse_value_not_next(s, next) ==
    parse_value_not(next, parse_value(s, next))

parse_value(s, token) ==
    CASE token.kind = "OpenBracket" -> parse_array(s, token.pos, <<>>)
      [] token.kind = "OpenParen" ->
            parse_value_paren(
                parse_expression(s, token.pos, PNone(token.pos)))
      [] token.kind = "SelectorPath" ->
            IF token.len < 1 THEN PPanic(token.pos)
            ELSE POk(ESelectorPath(SubSeq(s, token.start + 2, token.start + token.len)),
                     token.pos)
      [] token.kind = "QuotedString" ->
            IF token.len < 2 THEN PPanic(token.pos)
            ELSE POk(EStr(SubSeq(s, token.start + 2, token.start + token.len - 1)),
                     token.pos)
      [] token.kind = "Number" ->
            parse_value_number(token, ParseF64(TokenText(s, token)))
      [] token.kind = "BooleanTrue" -> POk(EBool(TRUE), token.pos)
      [] token.kind = "BooleanFalse" -> POk(EBool(FALSE), token.pos)
      [] token.kind = "Null" -> POk(ENull, token.pos)
      [] token.kind = "Coerce" ->
            parse_value_coerce_next(s, next_operator_token(s, token.pos))
      [] token.kind = "Not" ->
            parse_value_not_next(s, next_operator_token(s, token.pos))
      [] OTHER -> PErr("token is not a valid value", token.pos)

\* The node of a binary arm of parse_operation on the token after the
\* operator and the right operand parsed from it.
parse_binary_right(token, current, next, right) ==
    IF next.res # "tok" THEN PLex(next)
    ELSE IF right.res # "ok" THEN right
    ELSE POk(EBinary(OperatorNode(token.kind), current, right.e), right.pos)

parse_binary_next(s, token, current, next) ==
    parse_binary_right(token, current, next,
                       parse_value(s, next))

\* The node of an Or or And arm on the right operand parsed by
\* parse_expression.
parse_logical_right(token, current, right) ==
    IF right.res # "ok" THEN right
    ELSE IF ~right.some
         THEN PErr(IF token.kind = "Or" THEN "invalid operation after ||"
                                        ELSE "invalid operation after &&",
                   right.pos)
    ELSE POk(EBinary(token.kind, current, right.e), right.pos)

\* A binary arm that takes the rest of the expression as its right operand,
\* as the Or and And arms do: the operators would group to the right.
parse_binary_rest(s, token, current) ==
    LET right == parse_expression(s, token.pos, PNone(token.pos))
    IN  IF right.res # "ok" THEN right
        ELSE IF ~right.some THEN PErr("no value found after operation", right.pos)
        ELSE POk(EBinary(OperatorNode(token.kind), current, right.e), right.pos)

\* The arms of parse_operation that take one value as the right operand.
parse_binary(s, token, current) ==
    parse_binary_next(s, token, current, next_operator_token(s, token.pos))

\* An Or or And arm that takes one value as its right operand, as the other
\* binary arms do.
parse_logical_one_value(s, token, current) ==
    LET next == next_operator_token(s, token.pos)
        right == parse_value(s, next)
    IN  IF next.res # "tok" THEN PLex(next)
        ELSE IF right.res # "ok" THEN right
        ELSE POk(EBinary(token.kind, current, right.e), right.pos)

\* The Or and And arms of parse_operation.
parse_logical(s, token, current) ==
    parse_logical_right(token, current,
        parse_expression(s, token.pos, PNone(token.pos)))

\* The Between arm of parse_operation: the node on the two tokens and the
\* two values parsed from them.
parse_between_values(current, lhs, left, rhs, right) ==
    IF lhs.res # "tok" THEN PLex(lhs)
    ELSE IF left.res # "ok" THEN left
    ELSE IF rhs.res # "tok" THEN PLex(rhs)
    ELSE IF right.res # "ok" THEN right
    ELSE POk(EBetween(left.e, right.e, current), right.pos)

parse_between_rhs(s, current, lhs, left, rhs) ==
    parse_between_values(current, lhs, left, rhs,
                         parse_value(s, rhs))

parse_between_left(s, current, lhs, left) ==
    parse_between_rhs(s, current, lhs, left, next_operator_token(s, left.pos))

parse_between_lhs(s, current, lhs) ==
    parse_between_left(s, current, lhs, parse_value(s, lhs))

parse_between(s, token, current) ==
    parse_between_lhs(s, current, next_operator_token(s, token.pos))

\* The Not arm of parse_operation on the token after `!` and the operation
\* parsed from it.
parse_operation_not(next, value) ==
    IF next.res # "tok" THEN PLex(next)
    ELSE IF value.res # "ok" THEN value
    ELSE POk(EUnary("Not", value.e), value.pos)

parse_operation_next(s, current, next) ==
    parse_operation_not(next, parse_operation(s, next, current))

parse_operation(s, token, current) ==
    CASE token.kind \in BinaryOperatorKinds -> parse_binary(s, token, current)
      [] token.kind \in {"Or", "And"} -> parse_logical(s, token, current)
      [] token.kind = "Between" -> parse_between(s, token, current)
      [] token.kind = "Not" ->
            parse_operation_next(s, current, next_operator_token(s, token.pos))
      [] token.kind = "CloseBracket" -> POk(current, token.pos)
      [] OTHER -> PErr("invalid operation", token.pos)

\* The result of parse_bytes on the result r of parse_expression.
parse_bytes_result(r) ==
    IF r.res = "ok" /\ ~r.some
    THEN PErr("no expression results found", r.pos)
    ELSE r

\* Parser::parse_bytes (and Parser::parse, expr_parse): the whole source.
parse_bytes(expression) ==
    parse_bytes_result(parse_expression(expression, 0, PNone(0)))

(***************************************************************************)
(* Sources of the lexer runs                                               *)
(***************************************************************************)
MaxLen == 4

MaxTokens == 5

\* Every byte string of length at most n over the alphabet A.
Strings(A, n) == UNION {[1..m -> A] : m \in 0..n}

LexAlphabet == {" ", "1", ".", "-", ")", "'", "\\", "_"}

Keywords ==
    {KwOr, KwIn, KwStartsWith, KwEndsWith, KwBetween, KwContains,
     KwContainsAny, KwContainsAll, KwCoerce}

\* The bytes that follow a keyword in the keyword sources; <<>> is the end of input.
Followers ==
    {<<>>, <<" ">>, <<"\t">>, <<"\n">>, <<")">>, <<"]">>, <<",">>, <<"(">>,
     <<"_">>, <<"X">>, <<"1">>}

KeywordSources ==
    {kw \o f \o rest : kw \in Keywords, f \in Followers, rest \in {<<>>, <<"1">>}}

\* prefix, then n times the byte b, then suffix.
Run(prefix, b, n, suffix) == prefix \o [i \in 1..n |-> b] \o suffix

\* Run lengths around the largest u16.
LongLens == {U16Max - 1, U16Max, U16Max + 1}

LongSources == {Run(<<".">>, "a", n, <<>>) : n \in LongLens}

LexSources == Strings(LexAlphabet, MaxLen) \cup KeywordSources \cup LongSources

(***************************************************************************)
(* The tokenizer as an iterator: one action per call of Iterator::next.    *)
(***************************************************************************)
NotStarted == NoToken("start", "", 0)
\* No parse made yet, in the shape of a parse result.
NotParsed == [res |-> "none", some |-> FALSE, e |-> NoExpr, pos |-> 0, err |-> ""]
NoDoc == <<>>
\* No evaluation made yet, in the shape of an evaluation result.
NoResult == [res |-> "none", v |-> VNull, err |-> "", op |-> ""]

\* Tokenizer::new_bytes(src), no call made yet; nothing parsed or evaluated.
InitWith(Sources) ==
    /\ src \in Sources
    /\ overflow_checks \in BOOLEAN
    /\ pos = 0
    /\ tokens = <<>>
    /\ last = NotStarted
    /\ parsed = NotParsed
    /\ doc = NoDoc
    /\ result = NoResult

\* A tokenizer that steps over the byte it could not lex.
TokenizerNext_resync ==
    /\ last.res # "panic"
    /\ Len(tokens) < MaxTokens
    /\ LET r == next_token(src, pos)
       IN  /\ pos' = IF r.res = "err" /\ r.pos < Len(src) THEN r.pos + 1 ELSE r.pos
           /\ last' = r
           /\ tokens' = IF r.res = "tok"
                        THEN Append(tokens, [kind |-> r.kind, start |-> r.start, len |-> r.len])
                        ELSE tokens
    /\ UNCHANGED <<src, overflow_checks, parsed, doc, result>>

\* Iterator::next on the tokenizer. A panic ends the program.
TokenizerNext ==
    /\ last.res # "panic"
    /\ Len(tokens) < MaxTokens
    /\ LET r == next_token(src, pos)
       IN  /\ pos' = r.pos
           /\ last' = r
           /\ tokens' = IF r.res = "tok"
                        THEN Append(tokens, [kind |-> r.kind, start |-> r.start, len |-> r.len])
                        ELSE tokens
    /\ UNCHANGED <<src, overflow_checks, parsed, doc, result>>

InitLex == InitWith(LexSources)
NextLex == TokenizerNext
SpecLex == InitLex /\ [][NextLex]_vars

(***************************************************************************)
(* Sources of the parser runs: words joined by one space.                  *)
(***************************************************************************)
RECURSIVE Join(_)
Join(ws) ==
    IF Len(ws) = 0 THEN <<>>
    ELSE IF Len(ws) = 1 THEN ws[1]
    ELSE ws[1] \o <<" ">> \o Join(Tail(ws))

T1 == <<"1">>
T2 == <<"2">>
T3 == <<"3">>
TSelA == <<".", "a">>
TSelB == <<".", "b">>
TSelC == <<".", "c">>
TSelZ == <<".", "z", "z">>
TSelString == <<".", "s", "t", "r", "i", "n", "g">>
TTrue == <<"t", "r", "u", "e">>
TFalse == <<"f", "a", "l", "s", "e">>
TNull == <<"N", "U", "L", "L">>
TStrA == <<"\"", "a", "\"">>
TStrXt == <<"\"", "x", "t", "\"">>
TDate1 == <<"\"">> \o Date1 \o <<"\"">>
TDate2 == <<"'">> \o Date2 \o <<"'">>
TPlus == <<"+">>
TMinus == <<"-">>
TStar == <<"*">>
TEq == <<"=", "=">>
TAnd == <<"&", "&">>
TOrOr == <<"|", "|">>
TOpen == <<"(">>
TClose == <<")">>
TEW == <<"E", "W">>

ChainValues == {T1, T2, T3, TSelA}
ChainOps == {TPlus, TStar, TMinus, TEq}

\* The largest number of binary operators in a chain `v0 op1 v1 ... opn vn`.
MaxOps == 2

RECURSIVE Chains(_)
Chains(k) ==
    IF k = 0 THEN {<<v>> : v \in ChainValues}
    ELSE {c \o <<o, v>> : c \in Chains(k - 1), o \in ChainOps, v \in ChainValues}

ChainWords == UNION {Chains(k) : k \in 0..MaxOps}

\* `( v0 op1 v1 ) op2 v2`
GroupedChainWords ==
    {<<TOpen>> \o c \o <<TClose, o, v>> : c \in Chains(1), o \in ChainOps, v \in ChainValues}

LogicOps == {TAnd, TOrOr}

\* What stands between the parentheses of `L op1 ( E ) op2 R`.
GroupInner ==
    {<<x, o, y>> : x \in {TTrue, TFalse}, o \in LogicOps, y \in {TTrue, TFalse}}
        \cup {<<T1>>, <<TTrue>>, <<T1, TPlus, T2>>}

GroupWords ==
    {<<l, o1, TOpen>> \o e \o <<TClose, o2, r>> :
        l \in {TStrA, T1}, o1 \in {TEq, TPlus}, e \in GroupInner,
        o2 \in {TEq, TPlus}, r \in {TFalse, T2}}

\* The operands of && and ||.
LogicOperands ==
    {<<TTrue>>, <<TFalse>>, <<T1>>, <<TNull>>, <<TSelA>>, <<TSelB>>, <<TSelC>>,
     <<TSelA, TEq, T1>>, <<TSelB, TEq, T2>>, <<KwCoerce, TSelZ, IdentLowercase>>}

LogicWords ==
    {a \o <<o>> \o b : a \in LogicOperands, o \in LogicOps, b \in LogicOperands}
        \cup {a \o <<o1>> \o b \o <<o2>> \o c :
                a \in LogicOperands, o1 \in LogicOps, b \in LogicOperands,
                o2 \in LogicOps, c \in LogicOperands}

\* `( A && B ) op R`: a group that closes the right operand of && or ||.
LogicGroupWords ==
    {<<TOpen>> \o a \o <<o>> \o b \o <<TClose, o2, r>> :
        a \in {<<TTrue>>, <<TSelA, TEq, T1>>}, o \in LogicOps,
        b \in {<<TFalse>>, <<TSelB, TEq, T2>>}, o2 \in {TEq} \cup LogicOps,
        r \in {TTrue, TFalse}}

EndsWithWords ==
    {<<sel, o, str>> : sel \in {TSelString, TSelA}, o \in {TEW, KwEndsWith},
                       str \in {TStrXt, TStrA}}

\* Sources with a `(` that nothing closes.
UnclosedWords ==
    {<<TOpen>> \o c : c \in Chains(0) \cup Chains(1)}
        \cup {<<v, o, TOpen>> \o c : v \in ChainValues, o \in ChainOps, c \in Chains(0)}
        \cup {<<TOpen, TOpen>> \o c \o <<TClose>> : c \in Chains(0)}
        \cup {<<TOpen>> \o c \o <<TClose, o, TOpen, v>> :
                c \in Chains(0), o \in ChainOps, v \in ChainValues}

TOpenBracket == <<"[">>
TCloseBracket == <<"]">>
TComma == <<",">>
TNot == <<"!">>

\* The elements of the array sources, each the words of one value: literals,
\* a selector, a parenthesised expression, a nested array, a COERCE value
\* and a `!` value.
ArrayElems ==
    {<<T1>>, <<TStrA>>, <<TTrue>>, <<TNull>>, <<TSelA>>,
     <<TOpen, T1, TPlus, T2, TClose>>,
     <<TOpenBracket, T2, TCloseBracket>>,
     <<KwCoerce, TSelB, IdentLowercase>>,
     <<TNot, TFalse>>}

\* The largest number of elements of an array source.
MaxElems == 2

ArrayElemSeqs == UNION {[1..n -> ArrayElems] : n \in 0..MaxElems}

\* The words of the elements; with commas, a comma is written directly after
\* every element but the last.
RECURSIVE ElemWords(_, _)
ElemWords(es, commas) ==
    IF es = <<>> THEN <<>>
    ELSE IF Len(es) = 1 \/ ~commas THEN es[1] \o ElemWords(Tail(es), commas)
    ELSE SubSeq(es[1], 1, Len(es[1]) - 1) \o <<es[1][Len(es[1])] \o TComma>>
            \o ElemWords(Tail(es), commas)

\* `[ v1, v2 ]` or `[ v1 v2 ]`
ArraySource ==
    [es \in ArrayElemSeqs, commas \in BOOLEAN |->
        Join(<<TOpenBracket>> \o ElemWords(es, commas) \o <<TCloseBracket>>)]

ArraySources == {ArraySource[x] : x \in DOMAIN ArraySource}

TSlash == <<"/">>
TGt == <<">">>
TGte == <<">", "=">>
TLt == <<"<">>
TLte == <<"<", "=">>

\* <expr> ! <op> <rhs>, and <expr> ! followed by something that is not a
\* binary operator: a value, `)`, `]`, `,` or the end of the input.
NotLefts == {T1, TSelA, TStrA}
NotRights == {T2, TSelB, TTrue}
NotOps ==
    {TPlus, TMinus, TStar, TSlash, TEq, TGt, TGte, TLt, TLte, TAnd, TOrOr, KwOr,
     KwIn, KwContains, KwContainsAny, KwContainsAll, KwStartsWith, KwEndsWith}
NotFollowers == NotRights \cup {TClose, TCloseBracket, TComma}

NotOpWords == {<<l, TNot, o, r>> : l \in NotLefts, o \in NotOps, r \in NotRights}
NotOtherWords ==
    {<<l, TNot, f>> : l \in NotLefts, f \in NotFollowers}
        \cup {<<l, TNot>> : l \in NotLefts}

\* Sources that end directly after a binary operator, `v BETWEEN lo`, and
\* sources that end after a binary operator behind an unmatched `)`.
DanglingWords == {<<l, o>> : l \in NotLefts \cup {TTrue}, o \in NotOps}
BetweenLoWords == {<<l, KwBetween, lo>> : l \in NotLefts, lo \in NotRights}
CloseDanglingWords == {<<l, TClose, o>> : l \in NotLefts, o \in NotOps}

\* COERCE <v> _a_, _b_, _c_: a value and up to MaxIdents identifiers, a
\* comma after each identifier but the last.
IdentUnknown == <<"_", "x", "_">>
CoerceChainValues == {TSelA, TStrA, TDate1, T1, TNull}
CoerceChainIdents == {IdentDatetime, IdentLowercase, IdentUppercase, IdentUnknown}
MaxIdents == 3
CoerceIdentSeqs == UNION {[1..n -> CoerceChainIdents] : n \in 1..MaxIdents}
CoerceChainSource ==
    [v \in CoerceChainValues, ids \in CoerceIdentSeqs |->
        Join(<<KwCoerce, v>> \o ElemWords([i \in 1..Len(ids) |-> <<ids[i]>>], TRUE))]
CoerceChainSources == {CoerceChainSource[x] : x \in DOMAIN CoerceChainSource}

CoerceLiterals == {TDate1, TDate2, TStrA, T1, T2, TTrue, TFalse, TNull, TSelA}
CoerceIdents == {IdentDatetime, IdentLowercase, IdentUppercase}

CoerceWords == {<<KwCoerce, l, i>> : l \in CoerceLiterals, i \in CoerceIdents}

\* Sources written without the spaces.
Src_OpenOnePlusTwo == <<"(", "1", " ", "+", " ", "2">>
Src_Open == <<"(">>
Src_OpenClose == <<"(", ")">>
Src_Empty == <<>>
\* `.array_map.#(a==1).a`
Src_ArrayMapQuery ==
    <<".", "a", "r", "r", "a", "y", "_", "m", "a", "p", ".", "#", "(", "a", "=", "=",
      "1", ")", ".", "a">>

\* `1 + 2 ) * 3`, `1 ] + 2` and `1 ) @`
Src_UnmatchedParen == <<"1", " ", "+", " ", "2", " ", ")", " ", "*", " ", "3">>
Src_UnmatchedBracket == <<"1", " ", "]", " ", "+", " ", "2">>
Src_UnmatchedThenBad == <<"1", " ", ")", " ", "@">>
UnmatchedSources == {Src_UnmatchedParen, Src_UnmatchedBracket, Src_UnmatchedThenBad}

Src_GroupedAnd ==
    <<"\"", "a", "\"", " ", "=", "=", " ", "(", "t", "r", "u", "e", " ", "&", "&",
      " ", "t", "r", "u", "e", ")", " ", "=", "=", " ", "f", "a", "l", "s", "e">>

ParseWords ==
    ChainWords \cup GroupedChainWords \cup GroupWords \cup LogicWords
        \cup LogicGroupWords \cup EndsWithWords \cup UnclosedWords \cup CoerceWords
        \cup NotOpWords \cup NotOtherWords
        \cup DanglingWords \cup BetweenLoWords \cup CloseDanglingWords

ParseSources ==
    {Join(ws) : ws \in ParseWords}
        \cup {Src_OpenOnePlusTwo, Src_Open, Src_OpenClose, Src_Empty, Src_GroupedAnd,
              Src_ArrayMapQuery}
        \cup ArraySources \cup CoerceChainSources \cup UnmatchedSources

(***************************************************************************)
(* Documents: the paths of a JSON document and the Values found there.     *)
(***************************************************************************)
\* {"string":"text", "object":{ "prop": true }, "array":[1,3], ...}
TestDoc ==
    (<<"s", "t", "r", "i", "n", "g">> :> VString(<<"t", "e", "x", "t">>))
        @@ (<<"o", "b", "j", "e", "c", "t", ".", "p", "r", "o", "p">> :> VBool(TRUE))
        @@ (<<"a", "r", "r", "a", "y">> :> VArray(<<VNumber(Fin(1, 1)), VNumber(Fin(3, 1))>>))

\* {"a":1, "b":2, "string":"a"}
AbDoc ==
    (<<"a">> :> VNumber(Fin(1, 1)))
        @@ (<<"b">> :> VNumber(Fin(2, 1)))
        @@ (<<"s", "t", "r", "i", "n", "g">> :> VString(<<"a">>))

\* {}
EmptyDoc == <<>>

Docs == {TestDoc, AbDoc, EmptyDoc}

(***************************************************************************)
(* expr_parse, then calculate on a document.                               *)
(***************************************************************************)
\* expr_parse(src): Parser::parse over the whole source.
Parse ==
    /\ parsed.res = "none"
    /\ parsed' = parse_bytes(src)
    /\ UNCHANGED <<src, overflow_checks, pos, tokens, last, doc, result>>

\* expression.calculate(d) on the parsed expression.
Calculate(d) ==
    /\ parsed.res = "ok"
    /\ result.res = "none"
    /\ doc' = d
    /\ result' = calculate(parsed.e, d)
    /\ UNCHANGED <<src, overflow_checks, pos, tokens, last, parsed>>

Init == InitWith(ParseSources)
Next == Parse \/ \E d \in Docs : Calculate(d)
Spec == Init /\ [][Next]_vars

\* An evaluator that keeps the outcome of its first call.
Recalculate_cached(d) ==
    /\ parsed.res = "ok"
    /\ result.res # "none"
    /\ doc' = d
    /\ result' = result
    /\ UNCHANGED <<src, overflow_checks, pos, tokens, last, parsed>>

(***************************************************************************)
(* One tree applied many times: calculate is called again on the parsed    *)
(* expression, on any document, after an earlier call has returned.        *)
(***************************************************************************)
Recalculate(d) ==
    /\ parsed.res = "ok"
    /\ result.res # "none"
    /\ doc' = d
    /\ result' = calculate(parsed.e, d)
    /\ UNCHANGED <<src, overflow_checks, pos, tokens, last, parsed>>

NextRepeat == Next \/ \E d \in Docs : Recalculate(d)
SpecRepeat == Init /\ [][NextRepeat]_vars

(***************************************************************************)
(* Evaluation runs: sources whose operands are the selectors `.l`, `.r`    *)
(* and `.v`, calculated on the documents that hold every triple of sample  *)
(* Values at these paths.                                                  *)
(***************************************************************************)
TSelL == <<".", "l">>
TSelR == <<".", "r">>
TSelV == <<".", "v">>

\* The Values a document holds at a path; Date1, Date2 and Date3 are
\* strings there, and DateTime comes from COERCE ... _datetime_ alone.
EvalValues ==
    {VNull, VString(<<>>), VString(<<"a">>), VString(Date1), VString(Date2),
     VString(Date3), VNumber(Fin(0, 1)), VNumber(Fin(1, 1)), VNumber(Fin(2, 1)),
     VBool(TRUE), VArray(<<>>), VArray(<<VNumber(Fin(1, 1))>>),
     VArray(<<VString(<<"a">>), VNull>>), VObject(<<>>)}

EvalDocs ==
    {(<<"l">> :> a) @@ (<<"r">> :> b) @@ (<<"v">> :> c) :
        a \in EvalValues, b \in EvalValues, c \in EvalValues}

\* An operand as it is, and coerced to DateTime.
Operands(sel) == {<<sel>>, <<KwCoerce, sel, IdentDatetime>>}

ArithOps == {TPlus, TMinus, TStar, TSlash}
ArithWords == {l \o <<o>> \o r : l \in Operands(TSelL), o \in ArithOps, r \in Operands(TSelR)}

\* value BETWEEN lo hi
BetweenWords ==
    {v \o <<KwBetween>> \o lo \o hi :
        v \in Operands(TSelV), lo \in Operands(TSelL), hi \in Operands(TSelR)}

Paren(ws) == <<TOpen>> \o ws \o <<TClose>>
Bracket(ws) == <<TOpenBracket>> \o ws \o <<TCloseBracket>>

\* [ (.l == .r) (.r == .l) (.r == .v) (.l == .v) (.l == .l) ]
EqWords ==
    Bracket(Paren(<<TSelL, TEq, TSelR>>) \o Paren(<<TSelR, TEq, TSelL>>)
                \o Paren(<<TSelR, TEq, TSelV>>) \o Paren(<<TSelL, TEq, TSelV>>)
                \o Paren(<<TSelL, TEq, TSelL>>))

\* (.l / .r) == (.l / .r)
EqQuotientWords == Paren(<<TSelL, TSlash, TSelR>>) \o <<TEq>> \o Paren(<<TSelL, TSlash, TSelR>>)

\* (0 / 0) == (0 / 0)
T0 == <<"0">>
EqZeroQuotientWords == Paren(<<T0, TSlash, T0>>) \o <<TEq>> \o Paren(<<T0, TSlash, T0>>)

\* COERCE .l _datetime_ == COERCE .r _datetime_
EqDateWords ==
    <<KwCoerce, TSelL, IdentDatetime, TEq, KwCoerce, TSelR, IdentDatetime>>

\* [ (.l IN .r) (.r CONTAINS .l) ] and the same on the array [ .r .v ]
InWords ==
    Bracket(Paren(<<TSelL, KwIn, TSelR>>) \o Paren(<<TSelR, KwContains, TSelL>>))
InArrayWords ==
    Bracket(Paren(<<TSelL, KwIn>> \o Bracket(<<TSelR, TSelV>>))
                \o Paren(Bracket(<<TSelR, TSelV>>) \o <<KwContains, TSelL>>))

\* .l CONTAINS_ANY .r and .l CONTAINS_ALL .r
ContainsAnyWords == <<TSelL, KwContainsAny, TSelR>>
ContainsAllWords == <<TSelL, KwContainsAll, TSelR>>

EvalWords ==
    ArithWords \cup BetweenWords
        \cup {EqWords, EqQuotientWords, EqZeroQuotientWords, EqDateWords, InWords, InArrayWords,
              ContainsAnyWords, ContainsAllWords}

EvalSources == {Join(ws) : ws \in EvalWords}

InitEval == InitWith(EvalSources)
NextEval == Parse \/ \E d \in EvalDocs : Calculate(d)
SpecEval == InitEval /\ [][NextEval]_vars

\* COERCE .l _a_ and COERCE .l _a_, _b_: coercions evaluated on a document.
RuntimeCoerceWords ==
    {<<KwCoerce, TSelL, i>> : i \in CoerceIdents}
        \cup {<<KwCoerce, TSelL, i \o TComma, j>> : i \in CoerceIdents, j \in CoerceIdents}

\* The documents that hold one sample Value at the path l.
OperandDocs == {(<<"l">> :> a) : a \in EvalValues}

InitCoerce == InitWith({Join(ws) : ws \in RuntimeCoerceWords})
NextCoerce == Parse \/ \E d \in OperandDocs : Calculate(d)
SpecCoerce == InitCoerce /\ [][NextCoerce]_vars

(***************************************************************************)
(* Failing operands: each operand is a coercion of its own kind, so that   *)
(* the error of a node tells which operand it came from.                   *)
(***************************************************************************)
FailLeft == <<KwCoerce, TSelL, IdentLowercase>>
FailRight == <<KwCoerce, TSelR, IdentUppercase>>
FailValue == <<KwCoerce, TSelV, IdentDatetime>>

FailingWords ==
    {FailLeft \o <<o>> \o FailRight : o \in NotOps}
        \cup {Bracket(FailLeft \o FailRight \o FailValue),
              FailValue \o <<KwBetween>> \o FailLeft \o FailRight}

\* A Value each coercion accepts (the String) and two that some reject.
OrderValues == {VNull, VString(<<"a">>), VNumber(Fin(1, 1))}
OrderDocs ==
    {(<<"l">> :> a) @@ (<<"r">> :> b) @@ (<<"v">> :> c) :
        a \in OrderValues, b \in OrderValues, c \in OrderValues}

InitOrder == InitWith({Join(ws) : ws \in FailingWords})
NextOrder == Parse \/ \E d \in OrderDocs : Calculate(d)
SpecOrder == InitOrder /\ [][NextOrder]_vars

(***************************************************************************)
(* Operator runs: every binary operator and BETWEEN on selector operands,  *)
(* evaluated on the documents of OrderDocs.                                *)
(***************************************************************************)
OperatorWords ==
    {<<TSelL, o, TSelR>> : o \in NotOps} \cup {<<TSelV, KwBetween, TSelL, TSelR>>}

InitOperator == InitWith({Join(ws) : ws \in OperatorWords})
NextOperator == Parse \/ \E d \in OrderDocs : Calculate(d)
SpecOperator == InitOperator /\ [][NextOperator]_vars

(***************************************************************************)
(* Number runs: sources over the bytes of a number, lexed token by token   *)
(* and parsed.                                                             *)
(***************************************************************************)
NumberAlphabet == {"1", "-", "+", ".", " "}

\* Runs with an exponent; the exponents stay small.
ExponentSources ==
    {<<"1", "e", "1">>, <<"1", "e">>, <<"1", "e", "+", "1">>, <<"1", "e", "-", "1">>,
     <<"-", "1", "e", "1">>, <<"1", ".", "1", "e", "1">>, <<"1", "e", "1", ".", "1">>,
     <<"1", ".", "e", ".", "1">>, <<"1", "e", " ", "1">>}

NumberSources ==
    Strings(NumberAlphabet, MaxLen) \cup ExponentSources
        \cup {<<"1", " ", "-", " ", "2">>, <<"1", " ", "+", " ", "2">>,
              <<"1", " ", "-", "2">>, <<"1", "-", "2">>,
              <<"1", " ", "+", "2">>, <<"1", "+", "2">>}

InitNumber == InitWith(NumberSources)
NextNumber == TokenizerNext \/ Parse
SpecNumber == InitNumber /\ [][NextNumber]_vars

(***************************************************************************)
(* Quoted strings: sources over quotes, backslash and two other bytes,     *)
(* lexed token by token and parsed.                                        *)
(***************************************************************************)
StringAlphabet == {"'", "\"", "\\", "a", " "}
StringSources == Strings(StringAlphabet, MaxLen)

InitString == InitWith(StringSources)
NextString == TokenizerNext \/ Parse
SpecString == InitString /\ [][NextString]_vars

(***************************************************************************)
(* Reading a source back as its words, and the tree each word stands for.  *)
(***************************************************************************)
RECURSIVE Words(_)
Words(s) ==
    LET spaces == {i \in 1..Len(s) : s[i] = " "}
    IN  IF s = <<>> THEN <<>>
        ELSE IF spaces = {} THEN <<s>>
        ELSE <<SubSeq(s, 1, Min(spaces) - 1)>> \o Words(SubSeq(s, Min(spaces) + 1, Len(s)))

\* The expression a simple value denotes.
SimpleExpr(w) ==
    CASE w = T1 -> ENum(Fin(1, 1))
      [] w = T2 -> ENum(Fin(2, 1))
      [] w = T3 -> ENum(Fin(3, 1))
      [] w = TSelA -> ESelectorPath(<<"a">>)
      [] w = TSelB -> ESelectorPath(<<"b">>)
      [] w = TSelC -> ESelectorPath(<<"c">>)
      [] w = TSelZ -> ESelectorPath(<<"z", "z">>)
      [] w = TSelString -> ESelectorPath(<<"s", "t", "r", "i", "n", "g">>)
      [] w = TTrue -> EBool(TRUE)
      [] w = TFalse -> EBool(FALSE)
      [] w = TNull -> ENull
      [] w = TStrA -> EStr(<<"a">>)
      [] w = TStrXt -> EStr(<<"x", "t">>)
      [] w = TDate1 -> EStr(Date1)
      [] w = TDate2 -> EStr(Date2)

SimpleWords ==
    {T1, T2, T3, TSelA, TSelB, TSelC, TSelZ, TSelString, TTrue, TFalse, TNull, TStrA,
     TStrXt, TDate1, TDate2}

\* The node an operator word denotes.
OpNode(w) ==
    CASE w = TPlus -> "Add"
      [] w = TMinus -> "Sub"
      [] w = TStar -> "Mult"
      [] w = TEq -> "Eq"
      [] w = TAnd -> "And"
      [] w = TOrOr -> "Or"

\* v0 op1 v1 ... opn vn: simple values with binary operators between them.
IsChain(ws) ==
    /\ Len(ws) % 2 = 1
    /\ \A i \in 1..Len(ws) :
          IF i % 2 = 1 THEN ws[i] \in SimpleWords ELSE ws[i] \in ChainOps

\* opn(...op2(op1(v0, v1), v2)..., vn)
RECURSIVE LeftTree(_)
LeftTree(ws) ==
    IF Len(ws) = 1 THEN SimpleExpr(ws[1])
    ELSE [node |-> OpNode(ws[Len(ws) - 1]),
          left |-> LeftTree(SubSeq(ws, 1, Len(ws) - 2)),
          right |-> SimpleExpr(ws[Len(ws)])]

\* ( v0 op1 v1 ) op2 v2
IsGroupedChain(ws) ==
    /\ Len(ws) = 7
    /\ ws[1] = TOpen
    /\ ws[5] = TClose
    /\ IsChain(SubSeq(ws, 2, 4) \o SubSeq(ws, 6, 7))

Src_1Plus2Times3 == Join(<<T1, TPlus, T2, TStar, T3>>)
Src_Grouped1Plus2Times3 == Join(<<TOpen, T1, TPlus, T2, TClose, TStar, T3>>)

(***************************************************************************)
(* C1: binary operators other than && and || are applied strictly left to  *)
(* right with no precedence. A parsed chain v0 op1 v1 ... opn vn is the    *)
(* tree opn(...op1(v0, v1)..., vn), the same tree as with the first pair   *)
(* parenthesised, and 1 + 2 * 3 evaluates to Number(9) like (1 + 2) * 3.   *)
(***************************************************************************)
C1_LeftToRight ==
    /\ (parsed.res # "none" /\ IsChain(Words(src)))
          => parsed = POk(LeftTree(Words(src)), Len(src))
    /\ (parsed.res # "none" /\ IsGroupedChain(Words(src)))
          => parsed = POk(LeftTree(SubSeq(Words(src), 2, 4) \o SubSeq(Words(src), 6, 7)),
                          Len(src))
    /\ (result.res # "none" /\ src \in {Src_1Plus2Times3, Src_Grouped1Plus2Times3})
          => result = CalcOk(VNumber(Fin(9, 1)))

\* 1 + 2 * 3 has been parsed to Mult(Add(1, 2), 3) and evaluated.
C1_Witness ==
    /\ src = Src_1Plus2Times3
    /\ parsed.res = "ok"
    /\ parsed.e.node = "Mult"
    /\ parsed.e.left.node = "Add"
    /\ result.res = "ok"

\* An operand of && or ||: a chain, or COERCE <value> _lowercase_.
IsOperand(ws) ==
    \/ IsChain(ws)
    \/ /\ Len(ws) = 3
       /\ ws[1] = KwCoerce
       /\ ws[2] \in SimpleWords
       /\ ws[3] = IdentLowercase

OperandTree(ws) ==
    IF ws[1] = KwCoerce
    THEN [node |-> "CoerceLowercase", value |-> SimpleExpr(ws[2])]
    ELSE LeftTree(ws)

\* The places of && and || among the words.
LogicAt(ws) == {i \in 1..Len(ws) : ws[i] \in LogicOps}

\* Operands with && or || between them, and no parentheses.
RECURSIVE IsLogicSeq(_)
IsLogicSeq(ws) ==
    IF LogicAt(ws) = {} THEN IsOperand(ws)
    ELSE /\ IsOperand(SubSeq(ws, 1, Min(LogicAt(ws)) - 1))
         /\ IsLogicSeq(SubSeq(ws, Min(LogicAt(ws)) + 1, Len(ws)))

\* The tree in which each && and || has everything to its right as its
\* right operand.
RECURSIVE LogicTree(_)
LogicTree(ws) ==
    IF LogicAt(ws) = {} THEN OperandTree(ws)
    ELSE [node |-> OpNode(ws[Min(LogicAt(ws))]),
          left |-> OperandTree(SubSeq(ws, 1, Min(LogicAt(ws)) - 1)),
          right |-> LogicTree(SubSeq(ws, Min(LogicAt(ws)) + 1, Len(ws)))]

\* L op1 ( E ) op2 R with E free of parentheses.
IsGroup(ws) ==
    /\ Len(ws) >= 7
    /\ ws[1] \in SimpleWords
    /\ ws[2] \in ChainOps
    /\ ws[3] = TOpen
    /\ IsLogicSeq(SubSeq(ws, 4, Len(ws) - 3))
    /\ ws[Len(ws) - 2] = TClose
    /\ ws[Len(ws) - 1] \in ChainOps
    /\ ws[Len(ws)] \in SimpleWords

\* op2(op1(L, E), R)
GroupTree(ws) ==
    [node |-> OpNode(ws[Len(ws) - 1]),
     left |-> [node |-> OpNode(ws[2]),
               left |-> SimpleExpr(ws[1]),
               right |-> LogicTree(SubSeq(ws, 4, Len(ws) - 3))],
     right |-> SimpleExpr(ws[Len(ws)])]

(***************************************************************************)
(* C2: a parenthesised sub-expression is one value made of exactly the     *)
(* tokens between ( and its matching ): L op1 ( E ) op2 R parses to        *)
(* op2(op1(L, E), R), also when E contains && or ||, and                   *)
(* "a" == (true && true) == false is Eq(Eq("a", And(true, true)), false).  *)
(***************************************************************************)
C2_GroupIsOneValue ==
    /\ (parsed.res # "none" /\ IsGroup(Words(src)))
          => parsed = POk(GroupTree(Words(src)), Len(src))
    /\ (parsed.res # "none" /\ src = Src_GroupedAnd)
          => parsed.e = [node |-> "Eq",
                         left |-> [node |-> "Eq",
                                   left |-> EStr(<<"a">>),
                                   right |-> [node |-> "And",
                                              left |-> EBool(TRUE),
                                              right |-> EBool(TRUE)]],
                         right |-> EBool(FALSE)]

\* ( A lop B ... ) op R: a group that starts the source, closed after the
\* right operand of its last && or ||.
IsLogicGroup(ws) ==
    /\ Len(ws) >= 7
    /\ ws[1] = TOpen
    /\ LogicAt(SubSeq(ws, 2, Len(ws) - 3)) # {}
    /\ IsLogicSeq(SubSeq(ws, 2, Len(ws) - 3))
    /\ ws[Len(ws) - 2] = TClose
    /\ ws[Len(ws) - 1] \in ChainOps \cup LogicOps
    /\ ws[Len(ws)] \in SimpleWords

Src_AEq1AndBEq2 == Join(<<TSelA, TEq, T1, TAnd, TSelB, TEq, T2>>)
Src_AAndBOrC == Join(<<TSelA, TAnd, TSelB, TOrOr, TSelC>>)

IsEW(ws) ==
    /\ Len(ws) = 3
    /\ ws[1] \in {TSelString, TSelA}
    /\ ws[2] = TEW
    /\ ws[3] \in {TStrXt, TStrA}

(***************************************************************************)
(* C4: an expression <selector> EW <quoted string>, as .string EW "xt", is *)
(* accepted by expr_parse, and calculate on the parsed expression returns  *)
(* Ok for a document whose selected field is a string.                     *)
(***************************************************************************)
C4_EWAccepted ==
    /\ (parsed.res # "none" /\ IsEW(Words(src))) => parsed.res = "ok"
    /\ (/\ result.res # "none"
        /\ IsEW(Words(src))
        /\ get_bytes(doc, Tail(Words(src)[1])).type = "String")
          => result.res = "ok"

(***************************************************************************)
(* The first call of Iterator::next on a source that starts with a keyword.*)
(***************************************************************************)
HasPrefix(s, text) == Len(s) >= Len(text) /\ SubSeq(s, 1, Len(text)) = text

\* The keyword a source starts with: the longest one.
KeywordAt(s) ==
    {kw \in Keywords :
        /\ HasPrefix(s, kw)
        /\ \A other \in Keywords : HasPrefix(s, other) => Len(other) <= Len(kw)}

KeywordKind(kw) ==
    CASE kw = KwOr -> "Or"
      [] kw = KwIn -> "In"
      [] kw = KwStartsWith -> "StartsWith"
      [] kw = KwEndsWith -> "EndsWith"
      [] kw = KwBetween -> "Between"
      [] kw = KwContains -> "Contains"
      [] kw = KwContainsAny -> "ContainsAny"
      [] kw = KwContainsAll -> "ContainsAll"
      [] kw = KwCoerce -> "Coerce"

EndOfInput == "end of input"

\* The byte after the first n bytes of the source.
Follower(s, n) == IF Len(s) > n THEN s[n + 1] ELSE EndOfInput

\* `last` is what the first call of next returned.
FirstCall ==
    /\ last.res # "start"
    /\ \/ Len(tokens) = 0
       \/ Len(tokens) = 1 /\ last.res = "tok"

KeywordToken(kw) ==
    [res |-> "tok", kind |-> KeywordKind(kw), start |-> 0, len |-> Len(kw),
     err |-> "", pos |-> Len(kw)]

(***************************************************************************)
(* C5 as stated: a keyword followed by whitespace, `)`, `]`, `,` or the    *)
(* end of input is lexed as the keyword token; followed by any other byte  *)
(* it is a lex error.                                                      *)
(***************************************************************************)
C5_KeywordTerminators ==
    FirstCall =>
        \A kw \in KeywordAt(src) :
            IF Follower(src, Len(kw)) \in Whitespace \cup {")", "]", ",", EndOfInput}
            THEN last = KeywordToken(kw)
            ELSE last.res = "err"

(***************************************************************************)
(* C5 amended: a keyword is lexed as the keyword token exactly when an     *)
(* ASCII whitespace byte follows it; followed by `)`, `]`, `,`, the end of *)
(* input or any other byte, the lexer returns InvalidKeyword.              *)
(***************************************************************************)
C5_KeywordNeedsWhitespace ==
    FirstCall =>
        \A kw \in KeywordAt(src) :
            IF Follower(src, Len(kw)) \in Whitespace
            THEN last = KeywordToken(kw)
            ELSE last.res = "err" /\ last.err = "InvalidKeyword"

\* CONTAINS_ANY followed by a space has been lexed as the ContainsAny token.
C5_Witness ==
    /\ src = KwContainsAny \o <<" ", "1">>
    /\ Len(tokens) = 1
    /\ tokens[1].kind = "ContainsAny"
    /\ last.res = "tok"

\* The number of `(` still open after the bytes of s, d being open before.
RECURSIVE OpenDepth(_, _)
OpenDepth(s, d) ==
    IF s = <<>> THEN d
    ELSE OpenDepth(Tail(s),
                   IF Head(s) = "(" THEN d + 1
                   ELSE IF Head(s) = ")" /\ d > 0 THEN d - 1
                   ELSE d)

\* Some `(` of the source has no matching `)`.
Unclosed(s) == OpenDepth(s, 0) > 0

(***************************************************************************)
(* C6: an unclosed ( and an empty parenthesised expression are parse       *)
(* errors: Parser::parse returns Err for every source in which some ( has  *)
(* no matching ), as (1 + 2, and for ().                                   *)
(***************************************************************************)
C6_UnclosedIsError ==
    (parsed.res # "none" /\ (Unclosed(src) \/ src = Src_OpenClose))
        => parsed.res = "err"

\* The expression evaluated is an && or an ||.
LogicalEvaluated == result.res # "none" /\ parsed.e.node \in {"And", "Or"}

LeftResult == calculate(parsed.e.left, doc)
RightResult == calculate(parsed.e.right, doc)

IsBool(r) == r.res = "ok" /\ r.v.type = "Bool"

(***************************************************************************)
(* C7 as stated: both operands of && and || are always evaluated; if the   *)
(* right operand's evaluation fails or is not a Bool, calculate returns an *)
(* UnsupportedTypeComparison error, and a Bool only when both are Bool.    *)
(***************************************************************************)
C7_RightFailureIsTypeComparison ==
    LogicalEvaluated =>
        /\ ~IsBool(RightResult)
              => result.res = "err" /\ result.err = "UnsupportedTypeComparison"
        /\ result.res = "ok" => IsBool(LeftResult) /\ IsBool(RightResult)

(***************************************************************************)
(* C7 amended: both operands of && and || are always evaluated, left       *)
(* first. If the left operand's evaluation fails, calculate returns that   *)
(* error; otherwise, if the right operand's evaluation fails, calculate    *)
(* returns the right operand's error, whatever its kind and whatever the   *)
(* left operand is; if both succeed and one is not a Bool, it returns      *)
(* UnsupportedTypeComparison; it returns the Bool only when both are Bool. *)
(***************************************************************************)
C7_BothOperandsEvaluated ==
    LogicalEvaluated =>
        IF LeftResult.res = "err" THEN result = LeftResult
        ELSE IF RightResult.res = "err" THEN result = RightResult
        ELSE IF IsBool(LeftResult) /\ IsBool(RightResult)
             THEN result = CalcOk(VBool(IF parsed.e.node = "And"
                                        THEN LeftResult.v.b /\ RightResult.v.b
                                        ELSE LeftResult.v.b \/ RightResult.v.b))
             ELSE result.res = "err" /\ result.err = "UnsupportedTypeComparison"

\* false && 1 has been evaluated: the false on the left did not decide it.
C7_Witness ==
    /\ src = Join(<<TFalse, TAnd, T1>>)
    /\ parsed.e.node = "And"
    /\ result.res = "err"

\* The bytes source[start .. start+len] of a token.
SliceOf(t) == SubSeq(src, t.start + 1, t.start + t.len)

KeywordKinds ==
    {"In", "StartsWith", "EndsWith", "Between", "Contains", "ContainsAny",
     "ContainsAll", "Coerce"}

KeywordOfKind(kind) == CHOOSE kw \in Keywords : KeywordKind(kw) = kind

\* The slice of a token is the text of a token of its kind.
SliceIsTheText(t) ==
    CASE t.kind \in KeywordKinds -> SliceOf(t) = KeywordOfKind(t.kind)
      [] t.kind = "Or" -> SliceOf(t) \in {KwOr, TOrOr}
      [] t.kind = "CloseParen" -> SliceOf(t) = <<")">>
      [] t.kind = "Subtract" -> SliceOf(t) = <<"-">>
      [] t.kind = "SelectorPath" ->
            /\ Head(SliceOf(t)) = "."
            /\ \A k \in 1..t.len : SliceOf(t)[k] \notin Whitespace \cup {")", "]"}
      [] t.kind = "QuotedString" ->
            /\ t.len >= 2
            /\ Head(SliceOf(t)) \in {"\"", "'"}
            /\ SliceOf(t)[t.len] = Head(SliceOf(t))
      [] t.kind = "Identifier" -> Head(SliceOf(t)) = "_"
      [] t.kind = "Number" ->
            \A k \in 1..t.len : SliceOf(t)[k] \in Digit \cup {".", "-", "+", "e"}
      [] OTHER -> TRUE

(***************************************************************************)
(* C8: every token the lexer returns has start + len <= source length and  *)
(* len >= 1, its slice begins at a non-whitespace byte and is exactly the  *)
(* token's text, and successive tokens are in increasing, non-overlapping  *)
(* order with only ASCII whitespace between them.                          *)
(***************************************************************************)
C8_TokenSlices ==
    /\ \A i \in 1..Len(tokens) :
          /\ tokens[i].start + tokens[i].len <= Len(src)
          /\ tokens[i].len >= 1
          /\ src[tokens[i].start + 1] \notin Whitespace
          /\ SliceIsTheText(tokens[i])
    /\ \A i \in 1..(Len(tokens) - 1) :
          /\ tokens[i].start + tokens[i].len <= tokens[i + 1].start
          /\ \A k \in (tokens[i].start + tokens[i].len + 1)..tokens[i + 1].start :
                src[k] \in Whitespace
    /\ \A k \in 1..(IF tokens = <<>> THEN 0 ELSE tokens[1].start) :
          src[k] \in Whitespace

QuotedLiterals == {TDate1, TDate2, TStrA}
NumberLiterals == {T1, T2}
BoolLiterals == {TTrue, TFalse}

\* The literals of the eligibility set.
EligibleLiterals == QuotedLiterals \cup NumberLiterals \cup BoolLiterals \cup {TNull}

\* COERCE <literal> _datetime_ over the given literals.
IsCoerceDatetime(ws, literals) ==
    /\ Len(ws) = 3
    /\ ws[1] = KwCoerce
    /\ ws[2] \in literals
    /\ ws[3] = IdentDatetime

\* The text between the quotes of a quoted literal.
Unquoted(w) == SubSeq(w, 2, Len(w) - 1)

(***************************************************************************)
(* C9 as stated: for every literal of the eligibility set (QuotedString,   *)
(* Number, true, false, NULL), parsing COERCE <literal> _datetime_         *)
(* succeeds and gives a constant node holding a DateTime, or Null when the *)
(* date string cannot be parsed.                                           *)
(***************************************************************************)
C9_FoldSucceeds ==
    (parsed.res # "none" /\ IsCoerceDatetime(Words(src), EligibleLiterals))
        => /\ parsed.res = "ok"
           /\ parsed.e.node = "CoercedConst"
           /\ parsed.e.value.type \in {"DateTime", "Null"}

(***************************************************************************)
(* C9 amended: parsing COERCE <literal> _datetime_ succeeds for a          *)
(* QuotedString, with a constant node holding the DateTime of the string,  *)
(* or Null when the string is no date, and for NULL, with a constant node  *)
(* holding Null; for a Number, true or false the coercion computed at      *)
(* parse time fails and Parser::parse returns the UnsupportedCOERCE error. *)
(***************************************************************************)
C9_FoldOrFail ==
    /\ (parsed.res # "none" /\ IsCoerceDatetime(Words(src), QuotedLiterals))
          => parsed =
                POk(ECoercedConst(
                        IF parse_utc(Unquoted(Words(src)[2])).ok
                        THEN VDateTime(parse_utc(Unquoted(Words(src)[2])).t)
                        ELSE VNull),
                    Len(src))
    /\ (parsed.res # "none" /\ IsCoerceDatetime(Words(src), {TNull}))
          => parsed = POk(ECoercedConst(VNull), Len(src))
    /\ (parsed.res # "none"
            /\ IsCoerceDatetime(Words(src), NumberLiterals \cup BoolLiterals))
          => parsed.res = "err" /\ parsed.err = "UnsupportedCOERCE"

\* COERCE "2020-01-02T03:04:05Z" _datetime_ has been parsed to a constant
\* holding a DateTime.
C9_Witness ==
    /\ src = Join(<<KwCoerce, TDate1, IdentDatetime>>)
    /\ parsed.res = "ok"
    /\ parsed.e.node = "CoercedConst"
    /\ parsed.e.value.type = "DateTime"

(***************************************************************************)
(* C10: constant folding is unobservable for values: for every             *)
(* QuotedString or NULL literal L, the folded COERCE L _datetime_ (a       *)
(* CoercedConst) evaluates on every document to the same Value as a        *)
(* runtime COERCEDateTime node over L.                                     *)
(***************************************************************************)
C10_FoldingUnobservable ==
    (result.res # "none" /\ IsCoerceDatetime(Words(src), QuotedLiterals \cup {TNull}))
        => /\ parsed.e.node = "CoercedConst"
           /\ result = calculate([node |-> "COERCEDateTime",
                                  value |-> SimpleExpr(Words(src)[2])], doc)

\* The folded COERCE '2019-01-01T00:00:00Z' _datetime_ has been evaluated on
\* the test document to a DateTime.
C10_Witness ==
    /\ src = Join(<<KwCoerce, TDate2, IdentDatetime>>)
    /\ parsed.e.node = "CoercedConst"
    /\ doc = TestDoc
    /\ result.res = "ok"
    /\ result.v.type = "DateTime"

(***************************************************************************)
(* Array literals: the tree each element stands for.                       *)
(***************************************************************************)
ElemTree(e) ==
    CASE Len(e) = 1 -> SimpleExpr(e[1])
      [] e[1] = TOpen -> LeftTree(SubSeq(e, 2, Len(e) - 1))
      [] e[1] = TOpenBracket -> [node |-> "Arr", arr |-> <<SimpleExpr(e[2])>>]
      [] e[1] = KwCoerce -> [node |-> "CoerceLowercase", value |-> SimpleExpr(e[2])]
      [] e[1] = TNot -> [node |-> "Not", value |-> SimpleExpr(e[2])]

ArrTree(es) == [node |-> "Arr", arr |-> [i \in 1..Len(es) |-> ElemTree(es[i])]]

(***************************************************************************)
(* C11: commas are optional in an array literal. For all values v1..vn of  *)
(* the grammar, `[v1, v2, ..., vn]` and `[v1 v2 ... vn]` both parse to the *)
(* array literal whose elements are v1..vn in source order.                *)
(***************************************************************************)
C11_CommasOptional ==
    \A es \in ArrayElemSeqs : \A commas \in BOOLEAN :
        (parsed.res # "none" /\ src = ArraySource[es, commas])
            => parsed = POk(ArrTree(es), Len(src))

(***************************************************************************)
(* C12: the source `.array_map.#(a==1).a` is lexed as one SelectorPath     *)
(* token covering the whole text and parsed to a single SelectorPath node  *)
(* whose path is `array_map.#(a==1).a`, the text after the leading dot.    *)
(***************************************************************************)
C12_QueryIsOneSelector ==
    (parsed.res # "none" /\ src = Src_ArrayMapQuery)
        => /\ next_token(src, 0).res = "tok"
           /\ next_token(src, 0).kind = "SelectorPath"
           /\ next_token(src, 0).len = Len(src)
           /\ parsed = POk([node |-> "SelectorPath", ident |-> Tail(src)], Len(src))

\* The node a binary operator word denotes.
NotOpNode(w) ==
    CASE w = TPlus -> "Add"
      [] w = TMinus -> "Sub"
      [] w = TStar -> "Mult"
      [] w = TSlash -> "Div"
      [] w = TEq -> "Eq"
      [] w = TGt -> "Gt"
      [] w = TGte -> "Gte"
      [] w = TLt -> "Lt"
      [] w = TLte -> "Lte"
      [] w = TAnd -> "And"
      [] w = TOrOr -> "Or"
      [] w = KwOr -> "Or"
      [] w = KwIn -> "In"
      [] w = KwContains -> "Contains"
      [] w = KwContainsAny -> "ContainsAny"
      [] w = KwContainsAll -> "ContainsAll"
      [] w = KwStartsWith -> "StartsWith"
      [] w = KwEndsWith -> "EndsWith"

\* Not(op(expr, rhs))
NotTree(ws) ==
    [node |-> "Not",
     value |-> [node |-> NotOpNode(ws[3]),
                left |-> SimpleExpr(ws[1]),
                right |-> SimpleExpr(ws[4])]]

(***************************************************************************)
(* C13: `<expr> ! <op> <rhs>` parses to Not(op(expr, rhs)), and a `!` in   *)
(* operator position that is followed by anything that is not a binary     *)
(* operator (a value, `)`, `]`, `,`, the end of the input) is a parse      *)
(* error.                                                                  *)
(***************************************************************************)
C13_NotWrapsOperation ==
    parsed.res # "none" =>
        /\ Words(src) \in NotOpWords => parsed = POk(NotTree(Words(src)), Len(src))
        /\ Words(src) \in NotOtherWords => parsed.res = "err"

\* The first half alone: `<expr> ! <op> <rhs>` parses to Not(op(expr, rhs)).
C13_NotOpParses ==
    (parsed.res # "none" /\ Words(src) \in NotOpWords)
        => parsed = POk(NotTree(Words(src)), Len(src))

\* The second half without `]`.
C13_NotOtherFails ==
    (parsed.res # "none" /\ Words(src) \in NotOtherWords
        /\ Words(src)[Len(Words(src))] # TCloseBracket)
        => parsed.res = "err"

\* The source ends directly after a binary operator word.
EndsAfterOperator(ws) == ws # <<>> /\ ws[Len(ws)] \in NotOps

(***************************************************************************)
(* C14: Parser::parse returns Err for every source that ends directly      *)
(* after a binary operator token (`1 +`, `.a IN`, `true &&`), and for      *)
(* `v BETWEEN lo`, where the second bound is missing.                      *)
(***************************************************************************)
C14_DanglingOperatorIsError ==
    (parsed.res # "none"
        /\ (EndsAfterOperator(Words(src)) \/ Words(src) \in BetweenLoWords))
        => parsed.res = "err"

\* The same for the sources that hold no `)` before the operator.
C14_DanglingWithoutClose ==
    (parsed.res # "none" /\ Words(src) \in DanglingWords \cup BetweenLoWords)
        => parsed.res = "err"

\* The coercion node an identifier names.
CoerceNode(ident) ==
    CASE ident = IdentDatetime -> "COERCEDateTime"
      [] ident = IdentLowercase -> "CoerceLowercase"
      [] ident = IdentUppercase -> "CoerceUppercase"

\* e wrapped in the nodes of ids in source order, the last one outermost.
RECURSIVE Wrap(_, _)
Wrap(e, ids) ==
    IF ids = <<>> THEN e
    ELSE [node |-> CoerceNode(ids[Len(ids)]),
          value |-> Wrap(e, SubSeq(ids, 1, Len(ids) - 1))]

\* COERCE <v> _a_, _b_: the words of a chain and its identifiers.
StripComma(w) == IF w[Len(w)] = "," THEN SubSeq(w, 1, Len(w) - 1) ELSE w
ChainIdents(ws) == [i \in 1..(Len(ws) - 2) |-> StripComma(ws[i + 2])]
IsCoerceChain(ws) ==
    /\ Len(ws) >= 3
    /\ ws[1] = KwCoerce
    /\ ws[2] \in CoerceChainValues
    /\ ChainIdents(ws) \in CoerceIdentSeqs
    /\ src = CoerceChainSource[ws[2], ChainIdents(ws)]

AllKnown(ids) == \A i \in 1..Len(ids) : ids[i] \in CoerceIdents
DatetimeAt(ids) == {i \in 1..Len(ids) : ids[i] = IdentDatetime}
LastDatetime(ids) == CHOOSE i \in DatetimeAt(ids) : \A j \in DatetimeAt(ids) : j <= i

\* The chain up to its last `_datetime_`, evaluated without a document.
FoldedPrefix(v, ids) ==
    calculate(Wrap(SimpleExpr(v), SubSeq(ids, 1, LastDatetime(ids))), EmptyJson)

\* The tree of a chain over a literal that holds `_datetime_`: the constant
\* of the chain up to the last `_datetime_`, wrapped in the nodes after it.
FoldedTree(v, ids) ==
    Wrap(ECoercedConst(FoldedPrefix(v, ids).v),
         SubSeq(ids, LastDatetime(ids) + 1, Len(ids)))

WrapsOrFolds(v, ids) ==
    IF ~AllKnown(ids) THEN parsed.res = "err"
    ELSE IF v \notin EligibleLiterals \/ DatetimeAt(ids) = {}
    THEN parsed = POk(Wrap(SimpleExpr(v), ids), Len(src))
    ELSE IF FoldedPrefix(v, ids).res = "ok"
    THEN parsed = POk(FoldedTree(v, ids), Len(src))
    ELSE parsed.res = "err"

EvalSourcesParse == parsed.res \in {"none", "ok"}

ArithEvaluated ==
    /\ result.res # "none"
    /\ parsed.e.node \in {"Add", "Sub", "Mult", "Div"}
    /\ LeftResult.res = "ok"
    /\ RightResult.res = "ok"

IsTypeComparisonError(r) == r.res = "err" /\ r.err = "UnsupportedTypeComparison"

\* The operand matrix of Add on the operand Values l and r.
AddMatrix(l, r) ==
    CASE l.type = "Number" /\ r.type = "Number" ->
            result.res = "ok" /\ result.v = VNumber(F64Add(l.n, r.n))
      [] l.type = "String" /\ r.type = "String" ->
            result = CalcOk(VString(l.s \o r.s))
      [] l.type \in {"Number", "String"} /\ r.type = "Null" -> result = CalcOk(l)
      [] l.type = "Null" /\ r.type \in {"Number", "String"} -> result = CalcOk(r)
      [] OTHER -> IsTypeComparisonError(result)

\* The operand matrix of Sub, Mult and Div.
NumberOnlyMatrix(l, r) ==
    IF l.type = "Number" /\ r.type = "Number"
    THEN result.res = "ok" /\ result.v.type = "Number"
    ELSE IsTypeComparisonError(result)

(***************************************************************************)
(* C16: Add returns the Number sum for Number+Number, the concatenation    *)
(* for String+String and the non-null operand for Number+Null,             *)
(* Null+Number, String+Null, Null+String; Sub, Mult and Div accept only    *)
(* Number/Number and never fail on it, division by zero included; every    *)
(* other pair of operands, Null+Null and a Null operand of Sub, Mult or    *)
(* Div included, returns UnsupportedTypeComparison.                        *)
(***************************************************************************)
C16_ArithmeticMatrix ==
    ArithEvaluated =>
        IF parsed.e.node = "Add"
        THEN AddMatrix(LeftResult.v, RightResult.v)
        ELSE NumberOnlyMatrix(LeftResult.v, RightResult.v)

\* `.l / .r` on a document with l = 1 and r = 0 is Number(+infinity).
C16_Witness ==
    /\ ArithEvaluated
    /\ parsed.e.node = "Div"
    /\ LeftResult.v = VNumber(Fin(1, 1))
    /\ RightResult.v = VNumber(Fin(0, 1))
    /\ result = CalcOk(VNumber(PosInf))

\* Null + Null is an error, and so is DateTime + DateTime.
C16_WitnessNullNull ==
    /\ ArithEvaluated
    /\ parsed.e.node = "Add"
    /\ LeftResult.v = VNull
    /\ RightResult.v = VNull
    /\ IsTypeComparisonError(result)

ValueResult == calculate(parsed.e.value, doc)

BetweenEvaluated ==
    /\ result.res # "none"
    /\ parsed.e.node = "Between"
    /\ LeftResult.res = "ok"
    /\ RightResult.res = "ok"
    /\ ValueResult.res = "ok"

AllOfType(type, a, b, c) == a.type = type /\ b.type = type /\ c.type = type

\* Bool(lo < value < hi) on three Values of one ordered type.
StrictInterval(value, lo, hi) ==
    CASE value.type = "String" -> StrLt(lo.s, value.s) /\ StrLt(value.s, hi.s)
      [] value.type = "Number" -> F64Lt(lo.n, value.n) /\ F64Lt(value.n, hi.n)
      [] value.type = "DateTime" -> lo.t < value.t /\ value.t < hi.t

BetweenMatrix(value, lo, hi) ==
    IF \E type \in {"String", "Number", "DateTime"} : AllOfType(type, value, lo, hi)
    THEN result = CalcOk(VBool(StrictInterval(value, lo, hi)))
    ELSE IF value.type = "Null" \/ lo.type = "Null" \/ hi.type = "Null"
    THEN result = CalcOk(VBool(FALSE))
    ELSE IsTypeComparisonError(result)

(***************************************************************************)
(* C17: `value BETWEEN lo hi` returns Bool(lo < value < hi), both bounds   *)
(* strict, when all three are String, all Number or all DateTime; returns  *)
(* Bool(false) and no error whenever at least one of the three is Null,    *)
(* whatever the types of the other two; and returns                        *)
(* UnsupportedTypeComparison for every other combination.                  *)
(***************************************************************************)
C17_BetweenMatrix ==
    BetweenEvaluated => BetweenMatrix(ValueResult.v, LeftResult.v, RightResult.v)

\* A DateTime strictly between two others: 2019 < 2020 < 2021.
C17_Witness ==
    /\ BetweenEvaluated
    /\ ValueResult.v = VDateTime(parse_utc(Date1).t)
    /\ LeftResult.v = VDateTime(parse_utc(Date2).t)
    /\ RightResult.v = VDateTime(parse_utc(Date3).t)
    /\ result = CalcOk(VBool(TRUE))

\* A Number on the lower bound is not between, and a Null bound gives false
\* next to operands of two other types.
C17_WitnessBoundary ==
    /\ BetweenEvaluated
    /\ ValueResult.v = VNumber(Fin(1, 1))
    /\ LeftResult.v = VNumber(Fin(1, 1))
    /\ RightResult.v = VNumber(Fin(2, 1))
    /\ result = CalcOk(VBool(FALSE))

C17_WitnessNull ==
    /\ BetweenEvaluated
    /\ ValueResult.v.type = "Array"
    /\ LeftResult.v.type = "Null"
    /\ RightResult.v.type = "DateTime"
    /\ result = CalcOk(VBool(FALSE))

EqEvaluated ==
    /\ result.res # "none"
    /\ parsed.e.node = "Eq"
    /\ LeftResult.res = "ok"
    /\ RightResult.res = "ok"

\* One comparison: no error, true on one and the same Value, false on
\* Values of different variants.
EqOnOperands ==
    /\ result.res = "ok"
    /\ result.v.type = "Bool"
    /\ LeftResult.v = RightResult.v => result.v.b
    /\ LeftResult.v.type # RightResult.v.type => ~result.v.b

\* The results of [ (.l == .r) (.r == .l) (.r == .v) (.l == .v) (.l == .l) ].
EqArrayEvaluated == result.res # "none" /\ src = Join(EqWords)

EqIsEquivalence(e) ==
    /\ \A i \in 1..5 : e[i].type = "Bool"
    /\ e[5].b
    /\ e[1].b = e[2].b
    /\ (e[1].b /\ e[3].b) => e[4].b

(***************************************************************************)
(* C18: `==` never returns an error and is an equivalence relation on      *)
(* Values: reflexive, symmetric and transitive for every Value variant,    *)
(* with Null == Null true and any two Values of different variants         *)
(* unequal, Number values produced by evaluation such as `0 / 0` included. *)
(***************************************************************************)
C18_EqIsEquivalence ==
    /\ EqEvaluated => EqOnOperands
    /\ EqArrayEvaluated =>
          /\ result.res = "ok"
          /\ result.v.type = "Array"
          /\ Len(result.v.arr) = 5
          /\ EqIsEquivalence(result.v.arr)

\* The same for operands that are not the Number NaN.
C18_EqWithoutNaN ==
    /\ (EqEvaluated /\ LeftResult.v # VNumber(NaN)) => EqOnOperands
    /\ EqArrayEvaluated =>
          /\ result.res = "ok"
          /\ result.v.type = "Array"
          /\ Len(result.v.arr) = 5
          /\ EqIsEquivalence(result.v.arr)

\* [ (v IN arr) (arr CONTAINS v) ] is evaluated, arr being an Array.
InEvaluated ==
    /\ result.res # "none"
    /\ \/ src = Join(InWords) /\ get_bytes(doc, <<"r">>).type = "Array"
       \/ src = Join(InArrayWords)

(***************************************************************************)
(* C19: for every Value v and every Array arr, `v IN arr` and              *)
(* `arr CONTAINS v` return the same Bool.                                  *)
(***************************************************************************)
C19_InIsContains ==
    InEvaluated =>
        /\ result.res = "ok"
        /\ result.v.type = "Array"
        /\ Len(result.v.arr) = 2
        /\ result.v.arr[1].type = "Bool"
        /\ result.v.arr[1] = result.v.arr[2]

\* Null is in the array ["a", null], by IN and by CONTAINS.
C19_Witness ==
    /\ InEvaluated
    /\ src = Join(InWords)
    /\ get_bytes(doc, <<"l">>) = VNull
    /\ get_bytes(doc, <<"r">>) = VArray(<<VString(<<"a">>), VNull>>)
    /\ result = CalcOk(VArray(<<VBool(TRUE), VBool(TRUE)>>))

\* 2 is not in the array [ 1 "a" ] built by the expression.
C19_WitnessAbsent ==
    /\ InEvaluated
    /\ src = Join(InArrayWords)
    /\ get_bytes(doc, <<"l">>) = VNumber(Fin(2, 1))
    /\ get_bytes(doc, <<"r">>) = VNumber(Fin(1, 1))
    /\ get_bytes(doc, <<"v">>) = VString(<<"a">>)
    /\ result = CalcOk(VArray(<<VBool(FALSE), VBool(FALSE)>>))

\* CONTAINS_ANY or CONTAINS_ALL is evaluated on a String or Array left
\* operand and an empty String or empty Array right operand.
EmptyRightEvaluated ==
    /\ result.res # "none"
    /\ parsed.e.node \in {"ContainsAny", "ContainsAll"}
    /\ LeftResult.res = "ok"
    /\ RightResult.res = "ok"
    /\ LeftResult.v.type \in {"String", "Array"}
    /\ RightResult.v \in {VString(<<>>), VArray(<<>>)}

(***************************************************************************)
(* C20: with a String or Array left operand and an empty right operand     *)
(* (the empty String or the empty Array), CONTAINS_ANY returns Bool(false) *)
(* and CONTAINS_ALL returns Bool(true), in each of the four type pairings. *)
(***************************************************************************)
C20_EmptyRightOperand ==
    EmptyRightEvaluated => result = CalcOk(VBool(parsed.e.node = "ContainsAll"))

\* "a" CONTAINS_ALL [] is true.
C20_Witness ==
    /\ EmptyRightEvaluated
    /\ parsed.e.node = "ContainsAll"
    /\ LeftResult.v = VString(<<"a">>)
    /\ RightResult.v = VArray(<<>>)
    /\ result = CalcOk(VBool(TRUE))

\* [1] CONTAINS_ANY "" is false.
C20_WitnessAny ==
    /\ EmptyRightEvaluated
    /\ parsed.e.node = "ContainsAny"
    /\ LeftResult.v = VArray(<<VNumber(Fin(1, 1))>>)
    /\ RightResult.v = VString(<<>>)
    /\ result = CalcOk(VBool(FALSE))

\* The operand of the coercion at the root of the tree.
OperandResult == calculate(parsed.e.value, doc)

CoercionEvaluated ==
    /\ result.res # "none"
    /\ parsed.e.node \in {"COERCEDateTime", "CoerceLowercase", "CoerceUppercase"}
    /\ OperandResult.res = "ok"

IsCoerceError(r) == r.res = "err" /\ r.err = "UnsupportedCOERCE"

CoerceDateTimeMatrix(v) ==
    CASE v.type = "String" /\ parse_utc(v.s).ok ->
            result.res = "ok" /\ result.v.type = "DateTime"
      [] v.type = "String" /\ ~parse_utc(v.s).ok -> result = CalcOk(VNull)
      [] v.type = "Null" -> result = CalcOk(VNull)
      [] OTHER -> IsCoerceError(result)

CoerceCaseMatrix(v) ==
    IF v.type = "String" THEN result.res = "ok" /\ result.v.type = "String"
                         ELSE IsCoerceError(result)

(***************************************************************************)
(* C21: CoerceDateTime returns DateTime for a parseable String, Null for   *)
(* an unparseable String, Null for Null, and UnsupportedCoerce for every   *)
(* other variant; CoerceLowercase and CoerceUppercase return a String for  *)
(* a String and UnsupportedCoerce for every non-String, Null included.     *)
(***************************************************************************)
C21_CoercionMatrix ==
    CoercionEvaluated =>
        IF parsed.e.node = "COERCEDateTime"
        THEN CoerceDateTimeMatrix(OperandResult.v)
        ELSE CoerceCaseMatrix(OperandResult.v)

\* COERCE .l _lowercase_ on a document whose l is null is an error.
C21_Witness ==
    /\ CoercionEvaluated
    /\ parsed.e.node = "CoerceLowercase"
    /\ OperandResult.v = VNull
    /\ IsCoerceError(result)

\* An unparseable String is coerced to Null, a parseable one to DateTime, and
\* a DateTime operand is an error.
C21_WitnessUnparseable ==
    /\ CoercionEvaluated
    /\ parsed.e.node = "COERCEDateTime"
    /\ OperandResult.v = VString(<<"a">>)
    /\ result = CalcOk(VNull)

C21_WitnessDateTime ==
    /\ CoercionEvaluated
    /\ parsed.e.node = "COERCEDateTime"
    /\ OperandResult.v = VString(Date1)
    /\ result = CalcOk(VDateTime(parse_utc(Date1).t))

C21_WitnessDateTimeOperand ==
    /\ CoercionEvaluated
    /\ parsed.e.node = "COERCEDateTime"
    /\ OperandResult.v.type = "DateTime"
    /\ IsCoerceError(result)

(***************************************************************************)
(* C22: once Tokenizer::next has returned a LexError, no later call to     *)
(* next yields a further token: the call after an error returns the same   *)
(* error and leaves the cursor where it is, so every later call does too.  *)
(***************************************************************************)
C22_ErrorsHalt ==
    last.res = "err" =>
        /\ next_token(src, pos) = last
        /\ next_token(src, pos).pos = pos

\* An error after a token, with bytes of the source still ahead.
C22_Witness ==
    /\ last.res = "err"
    /\ tokens # <<>>
    /\ pos < Len(src)
    /\ next_token(src, pos).res = "err"

\* The tree holds a SelectorPath node.
RECURSIVE HasSelector(_)
HasSelector(e) ==
    CASE e.node = "SelectorPath" -> TRUE
      [] e.node = "Arr" -> \E i \in 1..Len(e.arr) : HasSelector(e.arr[i])
      [] e.node \in {"Not", "COERCEDateTime", "CoerceLowercase", "CoerceUppercase"} ->
            HasSelector(e.value)
      [] e.node = "Between" ->
            HasSelector(e.left) \/ HasSelector(e.right) \/ HasSelector(e.value)
      [] e.node \in BinaryNodes -> HasSelector(e.left) \/ HasSelector(e.right)
      [] OTHER -> FALSE

\* The outcome of the last call is the one its document alone determines,
\* and for a tree without a selector it is the outcome on every document.
OutcomeOfDocument ==
    result.res # "none" =>
        /\ result = calculate(parsed.e, doc)
        /\ ~HasSelector(parsed.e) => \A d \in Docs : result = calculate(parsed.e, d)

C23_WitnessConstant ==
    /\ result = CalcOk(VNumber(Fin(3, 1)))
    /\ ~HasSelector(parsed.e)
    /\ parsed.e.node = "Add"
    /\ doc = TestDoc

\* The outcomes of the operands of the root node, in the order of the
\* operands in the source.
SourceOrder ==
    CASE parsed.e.node = "Arr" ->
            [i \in 1..Len(parsed.e.arr) |-> calculate(parsed.e.arr[i], doc)]
      [] parsed.e.node = "Between" -> <<ValueResult, LeftResult, RightResult>>
      [] OTHER -> <<LeftResult, RightResult>>

Failing(rs) == {i \in 1..Len(rs) : rs[i].res # "ok"}

OperandFailed ==
    /\ result.res # "none"
    /\ parsed.e.node \in BinaryNodes \cup {"Arr", "Between"}
    /\ Failing(SourceOrder) # {}

(***************************************************************************)
(* C24: when operands of a node fail, calculate returns the error of the   *)
(* failing operand that comes first in the source: left before right for   *)
(* binary operators, earlier elements before later ones in an array        *)
(* literal, and value before lo before hi for `value BETWEEN lo hi`.       *)
(***************************************************************************)
C24_FirstErrorInSourceOrder ==
    OperandFailed => result = SourceOrder[Min(Failing(SourceOrder))]

\* The same for binary operators and array literals alone.
C24_FirstErrorWithoutBetween ==
    (OperandFailed /\ parsed.e.node # "Between")
        => result = SourceOrder[Min(Failing(SourceOrder))]

\* Both operands of a binary operator fail, and all three elements of an array.
C24_BothFail ==
    /\ OperandFailed
    /\ parsed.e.node \in BinaryNodes
    /\ Failing(SourceOrder) = {1, 2}
    /\ result.op = "COERCE lowercase"

\* The bytes of a number run besides the dot.
NumberBytes == Digit \cup {"e", "+", "-"}

\* A Number starts at offset p: a digit, or a sign immediately before a digit.
StartsNumber(s, p) ==
    \/ Byte(s, p) \in Digit
    \/ Byte(s, p) \in {"+", "-"} /\ Byte(s, p + 1) \in Digit

\* The end of the maximal run of number bytes and dots from offset p on.
RunEnd(s, p) == Min({k \in p..Len(s) : Byte(s, k) \notin NumberBytes \cup {"."}})
DotsIn(s, p, k) == Cardinality({j \in p..(k - 1) : Byte(s, j) = "."})

\* Where the token of the last call starts, or the byte it failed on.
LastStart == IF last.res = "tok" THEN last.start ELSE last.pos

SignLexed ==
    (last.res = "tok" /\ Byte(src, last.start) \in {"+", "-"}
        /\ ~StartsNumber(src, last.start))
        => /\ last.kind = IF Byte(src, last.start) = "+" THEN "Add" ELSE "Subtract"
           /\ last.len = 1

NumberLexed ==
    (last.res \in {"tok", "err"} /\ StartsNumber(src, LastStart))
        => IF DotsIn(src, LastStart, RunEnd(src, LastStart)) <= 1
           THEN /\ last.res = "tok"
                /\ last.kind = "Number"
                /\ last.len = RunEnd(src, LastStart) - LastStart
           ELSE last.res = "err" /\ last.err = "InvalidNumber"

\* `1 - 2`, `1 -2` and `1-2`, and the same with `+`.
SignSpaced == {Join(<<T1, TMinus, T2>>), Join(<<T1, TPlus, T2>>)}
SignGlued ==
    {<<"1", " ", "-", "2">>, <<"1", "-", "2">>, <<"1", " ", "+", "2">>, <<"1", "+", "2">>}

SignParsed ==
    parsed.res # "none" =>
        /\ src = Join(<<T1, TMinus, T2>>)
              => parsed = POk(EBinary("Sub", ENum(Fin(1, 1)), ENum(Fin(2, 1))), Len(src))
        /\ src \in SignGlued => parsed.res = "err"

(***************************************************************************)
(* C25: a `+` or `-` immediately followed by a digit starts a signed       *)
(* Number token and otherwise lexes as Add or Subtract; a Number token is  *)
(* the maximal run of digits, `e`, `+`, `-` and at most one `.`, and a     *)
(* second `.` in the run makes the lexer return InvalidNumber; hence       *)
(* `1 - 2` parses as a subtraction while `1 -2` and `1-2` make             *)
(* Parser::parse return Err.                                               *)
(***************************************************************************)
C25_SignedNumbers == SignLexed /\ NumberLexed /\ SignParsed

\* `1 -2`: the lexer has given Number `1` and Number `-2`, and the parse of
\* the source is an error.
C25_Witness ==
    /\ src = <<"1", " ", "-", "2">>
    /\ Len(tokens) = 2
    /\ last.res = "tok" /\ last.kind = "Number" /\ last.start = 2 /\ last.len = 2
    /\ parsed.res = "err"

\* A second dot in the run: InvalidNumber.
C25_WitnessSecondDot ==
    /\ last.res = "err" /\ last.err = "InvalidNumber"
    /\ StartsNumber(src, LastStart)
    /\ DotsIn(src, LastStart, RunEnd(src, LastStart)) = 2

\* A sign before a blank is Subtract.
C25_WitnessSubtract ==
    /\ last.res = "tok" /\ last.kind = "Subtract"
    /\ Byte(src, last.start + 1) = " "

(***************************************************************************)
(* C26: Parser::parse returns Ok only if every token of the source was     *)
(* consumed into the returned tree, so that a source with an unmatched `)` *)
(* or `]`, or with tokens after one (`1 + 2 ) * 3`, `1 ] + 2`, `1 ) @`),   *)
(* is never accepted.                                                      *)
(***************************************************************************)
C26_WholeSourceConsumed ==
    parsed.res = "ok" =>
        /\ parsed.pos = Len(src)
        /\ src \notin UnmatchedSources

\* The offset of the first quote of the kind q, from offset k on, that is not
\* reached in the escaped state, or -1: a backslash sets the state, a further
\* backslash keeps it, every other byte clears it.
RECURSIVE Terminator(_, _, _, _)
Terminator(s, k, escaped, q) ==
    IF k >= Len(s) THEN -1
    ELSE IF s[k + 1] = "\\" THEN Terminator(s, k + 1, TRUE, q)
    ELSE IF s[k + 1] = q /\ ~escaped THEN k
    ELSE Terminator(s, k + 1, FALSE, q)

ClosingQuote(s, p) == Terminator(s, p + 1, FALSE, s[p + 1])

QuoteLexed ==
    (last.res \in {"tok", "err"} /\ Byte(src, LastStart) \in {"'", "\""})
        => IF ClosingQuote(src, LastStart) = -1
           THEN last.res = "err" /\ last.err = "UnterminatedString"
           ELSE /\ last.res = "tok"
                /\ last.kind = "QuotedString"
                /\ last.len = ClosingQuote(src, LastStart) - LastStart + 1

\* The source is one quoted literal.
IsOneLiteral(s) ==
    /\ Byte(s, 0) \in {"'", "\""}
    /\ ClosingQuote(s, 0) = Len(s) - 1

LiteralParsed ==
    (parsed.res # "none" /\ IsOneLiteral(src))
        => parsed = POk(EStr(SubSeq(src, 2, Len(src) - 1)), Len(src))

(***************************************************************************)
(* C30: a quoted string token runs from the opening quote to the first     *)
(* later quote of the same kind that is not reached in the escaped state   *)
(* (a backslash sets the escaped state, and a further backslash keeps it), *)
(* failing with UnterminatedString when there is none; the String value of *)
(* the literal is the source bytes strictly between the two quotes, copied *)
(* verbatim with the escape backslashes kept.                              *)
(***************************************************************************)
C30_QuotedStrings == QuoteLexed /\ LiteralParsed

\* '\'' is one token, and its String value is the two bytes \' .
C30_Witness ==
    /\ src = <<"'", "\\", "'", "'">>
    /\ last.res = "tok" /\ last.kind = "QuotedString" /\ last.len = 4
    /\ parsed = POk(EStr(<<"\\", "'">>), 4)

\* '\\' is unterminated: the second backslash keeps the escaped state.
C30_WitnessKept ==
    /\ src = <<"'", "\\", "\\", "'">>
    /\ last.res = "err" /\ last.err = "UnterminatedString"
    /\ parsed.res = "err"

\* A quote of the other kind does not end the string.
C30_WitnessOtherQuote ==
    /\ src = <<"'", "\"", "a", "'">>
    /\ last.res = "tok" /\ last.len = 4
    /\ parsed = POk(EStr(<<"\"", "a">>), 4)

\* The source is one of LongSources: a selector path of U16Max bytes or more.
IsLongSource == Len(src) >= U16Max /\ src[1] = "." /\ \A k \in 2..Len(src) : src[k] = "a"

\* The calls made so far gave the whole source as one SelectorPath token.
OneSelectorToken ==
    /\ last.res # "panic"
    /\ tokens # <<>>
    /\ tokens[1] = [kind |-> "SelectorPath", start |-> 0, len |-> Len(src)]

(***************************************************************************)
(* C28: the 16-bit length counter of the lexer never overflows: for a run  *)
(* of matching bytes of any length, runs longer than 65535 bytes included, *)
(* take_while returns the exact run length and the token's len equals the  *)
(* byte length of its text. On a source that is one long selector path the *)
(* first call returns a SelectorPath token whose len is the length of the  *)
(* source.                                                                 *)
(***************************************************************************)
C28_NoOverflow == (IsLongSource /\ last.res # "start") => OneSelectorToken

\* The same for the one long source that fits the counter.
C28_ShortEnough ==
    (Len(src) = U16Max /\ last.res # "start") => OneSelectorToken

\* The symbol or keyword of an operator node.
NodeSymbol(n) ==
    CASE n = "Add" -> "+"
      [] n = "Sub" -> "-"
      [] n = "Mult" -> "*"
      [] n = "Div" -> "/"
      [] n = "Gt" -> ">"
      [] n = "Gte" -> ">="
      [] n = "Lt" -> "<"
      [] n = "Lte" -> "<="
      [] n = "And" -> "&&"
      [] n = "Or" -> "||"
      [] n = "In" -> "IN"
      [] n = "Contains" -> "CONTAINS"
      [] n = "ContainsAny" -> "CONTAINS_ANY"
      [] n = "ContainsAll" -> "CONTAINS_ALL"
      [] n = "StartsWith" -> "STARTS_WITH"
      [] n = "EndsWith" -> "ENDS_WITH"
      [] n = "Between" -> "BETWEEN"
      [] OTHER -> "=="

\* The root node, an operator on selector paths, rejected the types of its
\* operands.
RootRejectedTypes ==
    /\ IsTypeComparisonError(result)
    /\ parsed.e.node \in BinaryNodes \cup {"Between"}

(***************************************************************************)
(* C29: the detail of an UnsupportedTypeComparison error names the         *)
(* operator whose operand types were rejected: for every binary operator   *)
(* and for BETWEEN, STARTS_WITH, ENDS_WITH and IN included, the symbol or  *)
(* keyword in the detail is that of the failing node.                      *)
(***************************************************************************)
C29_DetailNamesOperator ==
    RootRejectedTypes => result.op = NodeSymbol(parsed.e.node)

\* The same for the operators other than STARTS_WITH, ENDS_WITH and IN.
C29_DetailOfOtherOperators ==
    (RootRejectedTypes /\ parsed.e.node \notin {"StartsWith", "EndsWith", "In"})
        => result.op = NodeSymbol(parsed.e.node)

\* Every operator but == rejects some pair of operand types.
C29_EveryOperatorRejects ==
    \A n \in (BinaryNodes \cup {"Between"}) \ {"Eq"} :
        \E d \in OrderDocs :
            parsed.res = "ok" /\ parsed.e.node = n
                => IsTypeComparisonError(calculate(parsed.e, d))

\* The end of the i-th token returned, 0 before the first.
TokenEnd(i) == IF i = 0 THEN 0 ELSE tokens[i].start + tokens[i].len

\* Every token returned so far begins at or after the end of the one before
\* it and is at least one byte long, and the cursor is at the end of the
\* last one or beyond.
CursorAdvanced ==
    /\ \A i \in 1..Len(tokens) :
        /\ tokens[i].start >= TokenEnd(i - 1)
        /\ tokens[i].len >= 1
    /\ pos >= TokenEnd(Len(tokens))
    /\ pos <= Len(src)

\* The calls made so far returned, and at most one token per byte of the
\* source.
CallsReturned == last.res # "panic" /\ Len(tokens) <= Len(src)

(***************************************************************************)
(* C27: lexing terminates on every finite source: each successful next()   *)
(* advances the cursor by at least one byte, so the lexer reaches None or  *)
(* a LexError after at most |source| tokens.                               *)
(***************************************************************************)
C27_LexingTerminates == CallsReturned /\ CursorAdvanced

\* The same for the sources shorter than the range of the u16 counter.
C27_ShortSourcesTerminate == Len(src) < U16Max => CallsReturned /\ CursorAdvanced

\* A source of one-byte tokens gave as many tokens as it has bytes, and the
\* next call gave None.
C27_OneTokenPerByte ==
    /\ Len(src) = MaxLen
    /\ Len(tokens) = Len(src)
    /\ last.res = "none"

\* The parser answers Ok or Err without reading past the end of the source.
C27_ParserReturns ==
    parsed.res # "none" => parsed.res \in {"ok", "err"} /\ parsed.pos <= Len(src)

====
